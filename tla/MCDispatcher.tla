---------------------------- MODULE MCDispatcher ----------------------------
\* Instances of Dispatcher: one task in step with the base tick, with a second one
\* at every other tick, and with a second one at every tick.
EXTENDS Dispatcher

OneTask  == <<1>>
TwoTasks == <<1, 2>>
InStep   == <<1, 1>>

=============================================================================
