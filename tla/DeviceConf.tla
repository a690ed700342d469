------------------------------ MODULE DeviceConf ------------------------------
(***************************************************************************)
(* The three configuration files an upload brings for the C core: what the *)
(* web server reads in each (retain_config.py, image_config.py,            *)
(* plugin_config_model.py), what it accepts and installs                   *)
(* (plcapp_management.py), and what the core makes of the installed file   *)
(* (plc_retain_file_store.cpp, image_tables.cpp, plugin_config.c).         *)
(* Operators without state; Upload installs and removes the files.         *)
(*                                                                         *)
(* The content of a file is a record with its "kind".                      *)
(*   retain: the tokens of its three keys.  A path is one of Paths; a      *)
(*           number is <<n>>, or <<>> when it is not one.                  *)
(*   image:  its version and, for the tables it names, [count, unit].      *)
(*   vpp:    a set of plugins: the place of the object, the place of its   *)
(*           configuration, whether the upload has that configuration, and *)
(*           whether the name is a plain file name.                        *)
(***************************************************************************)
EXTENDS Integers, Sequences

(* ---- retain.conf --------------------------------------------------------- *)

\* What a path names: "slash" is a file's name with a slash after it.
Paths == {"", "default", "file", "slash", "relative", "unnormalised", "directory", "orphan"}

\* read_retain_conf_file: an unset key, an empty path or a flush period that is no number
\* has its default.
RetainRead(c) ==
    [enabled |-> c.enabled \in {"1", "true", "True"},
     path |-> IF c.path = "" THEN "default" ELSE c.path,
     flush |-> IF c.flush = <<>> THEN 5 ELSE c.flush[1]]

\* validate_retain_path: an absolute, normalised name of a file in a directory there is.
PathAccepted(path) == path \in {"default", "file", "slash"}

FlushAccepted(seconds) == seconds \in 1 .. 3600

\* Settings of a store that is switched off are not looked at.
RetainAccepted(c) ==
    LET cfg == RetainRead(c)
    IN  cfg.enabled => PathAccepted(cfg.path) /\ FlushAccepted(cfg.flush)

\* Seeded fault: the upload's file is copied.
RetainCopied(c) == c

\* write_retain_conf_file: the settings as parsed.
RetainInstalled(c) ==
    LET cfg == RetainRead(c)
    IN  [kind |-> "retain", enabled |-> IF cfg.enabled THEN "1" ELSE "0",
         path |-> cfg.path, flush |-> <<cfg.flush>>]

\* read_config of the core: enabled without a path is off; a period below 1 is 1.
CoreRetain(c) ==
    [enabled |-> c.enabled \in {"1", "true"} /\ c.path # "",
     path |-> c.path,
     flush |-> IF c.flush # <<>> /\ c.flush[1] >= 1 THEN c.flush[1] ELSE 1]

\* The core runs the settings that were validated.
RetainHonoured(c) ==
    LET cfg == RetainRead(c)
        core == CoreRetain(RetainInstalled(c))
    IN  /\ core.enabled = cfg.enabled
        /\ cfg.enabled => core.path = cfg.path /\ core.flush = cfg.flush

(* ---- image.conf ----------------------------------------------------------- *)

UnitOf ==
    [bool_input |-> "bits", bool_output |-> "bits", bool_memory |-> "bits",
     byte_input |-> "bytes", byte_output |-> "bytes",
     int_input |-> "words", int_output |-> "words", int_memory |-> "words",
     dint_input |-> "dwords", dint_output |-> "dwords", dint_memory |-> "dwords",
     lint_input |-> "lwords", lint_output |-> "lwords", lint_memory |-> "lwords"]
Tables == DOMAIN UnitOf

ImageFormat == 2
MaxElements == 65536

\* Elements of a BOOL table are bytes, and its unit is bits.
PerElement(t) == IF UnitOf[t] = "bits" THEN 8 ELSE 1

\* max_in_file_unit
Ceiling(t) == MaxElements * PerElement(t)

\* read_image_conf_file: a table that is not named has size 0; other keys are ignored.
ImageRead(c) ==
    [t \in Tables |-> IF t \in DOMAIN c.tables THEN c.tables[t]
                      ELSE [count |-> <<0>>, unit |-> UnitOf[t]]]

\* validate_table_count
CountAccepted(t, size) ==
    /\ size.unit = UnitOf[t]
    /\ size.count # <<>>
    /\ size.count[1] \in 0 .. Ceiling(t)

\* validate_image_conf: the version, then all tables or none.
ImageAccepted(c) ==
    /\ c.readable /\ c.version = ImageFormat
    /\ \A t \in Tables : CountAccepted(t, ImageRead(c)[t])

\* write_image_conf_file: every table, explicitly.
ImageInstalled(c) ==
    [kind |-> "image", readable |-> TRUE, version |-> ImageFormat, tables |-> ImageRead(c)]

\* image_sizes_read_conf of the core, in elements: bits are rounded up; what cannot be
\* honoured is 0, and everything is in a file of another version.
CoreImage(c) ==
    [t \in Tables |->
        IF /\ c.version = ImageFormat /\ t \in DOMAIN c.tables
           /\ c.tables[t].unit = UnitOf[t] /\ c.tables[t].count # <<>>
           /\ c.tables[t].count[1] \in 1 .. MaxElements * PerElement(t)
        THEN (c.tables[t].count[1] + PerElement(t) - 1) \div PerElement(t)
        ELSE 0]

\* Each table has room for what was asked, and less than one element more.
ImageHonoured(c) ==
    LET core == CoreImage(ImageInstalled(c))
    IN  \A t \in Tables :
            /\ core[t] <= MaxElements
            /\ (core[t] * PerElement(t)) - ImageRead(c)[t].count[1] \in 0 .. PerElement(t) - 1

(* ---- vpp_plugins.conf ------------------------------------------------------ *)

\* Where a path leads: below build/vpp, there through "..", elsewhere in the runtime's
\* directory, outside of it, or it is absolute or empty.
Places == {"", "build", "dotted", "tree", "outside", "absolute", "persistent"}

\* validate_vpp_plugins_conf: the whole file or nothing.
VppAccepted(c) ==
    \A p \in c.plugins :
        p.object \in {"build", "dotted"} /\ p.config \in {"", "build", "dotted", "tree"}

\* Seeded fault: the configuration is delivered where build/ is wiped.
MovedNot(p) == p

\* A configuration the upload has is delivered to the persistent directory.
Moved(p) ==
    IF p.config # "" /\ p.delivered /\ p.plain THEN [p EXCEPT !.config = "persistent"] ELSE p

\* apply_vpp_plugin_conf
VppInstalled(c) == [kind |-> "vpp", plugins |-> {Moved(p) : p \in c.plugins}]

\* plugin_path_is_acceptable of the core drops a plugin with a ".." in its path.
CoreVpp(c) == {p \in c.plugins : p.object \in {"build", "tree"}}

\* The core loads every plugin of the file (but those it finds "dotted"), and what was
\* delivered for it outlives build/.
VppHonoured(c) ==
    \A p \in c.plugins : p.object # "dotted" =>
        \E q \in CoreVpp(VppInstalled(c)) :
            /\ [q EXCEPT !.config = p.config] = p
            /\ p.config # "" /\ p.delivered /\ p.plain => q.config = "persistent"

(* ---- any of them ------------------------------------------------------------ *)

\* What the reader of a file makes of a number.
IsNumber(n) == n = <<>> \/ (n \in Seq(Int) /\ Len(n) = 1)

\* A content of a file, as the header describes it.
WellFormed(c) ==
    \/ c.kind = "retain" /\ c.path \in Paths /\ IsNumber(c.flush)
    \/ c.kind = "image" /\ \A t \in DOMAIN c.tables : IsNumber(c.tables[t].count)
    \/ /\ c.kind = "vpp"
       /\ c.plugins \subseteq [name : STRING, object : Places, config : Places,
                               delivered : BOOLEAN, plain : BOOLEAN]

Accepted(c) ==
    CASE c.kind = "retain" -> RetainAccepted(c)
      [] c.kind = "image" -> ImageAccepted(c)
      [] c.kind = "vpp" -> VppAccepted(c)

Faithful(c) ==
    CASE c.kind = "retain" -> RetainHonoured(c)
      [] c.kind = "image" -> ImageHonoured(c)
      [] c.kind = "vpp" -> VppHonoured(c)
=============================================================================
