----------------------------- MODULE MCUpload -----------------------------
(* The upload path: two uploads, plugins.conf, and one copied file that may    *)
(* have the content of any of the three; one power cut.                        *)
EXTENDS Upload

MCConfs == <<"copied", "plugins">>

Number == {<<n>> : n \in {-1, 0, 1, 3600, 3601}} \cup {<<>>}
MCRetain ==
    [kind : {"retain"}, enabled : {"", "0", "1", "true", "True"}, path : Paths, flush : Number]

MCUnit == {"bits", "bytes", "words", ""}
MCCount == {<<n>> : n \in {-1, 0, 1, 7, 8, 9, 65536, 65537, 524281, 524288, 524289}} \cup {<<>>}
MCImage ==
    [kind : {"image"}, readable : BOOLEAN, version : {-1, 0, 2, 3},
     tables : UNION {[ts -> [count : MCCount, unit : MCUnit]] :
                        ts \in {{}, {"bool_output"}, {"int_memory"}}}]

MCPlugin == [name : {"io", "drive"}, object : Places, config : Places, delivered : BOOLEAN,
             plain : BOOLEAN]
MCVpp == [kind : {"vpp"}, plugins : {{p} : p \in MCPlugin} \cup {{}}]

MCContents == MCRetain \cup MCImage \cup MCVpp
===========================================================================
