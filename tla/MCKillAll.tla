------------------------------ MODULE MCKillAll ------------------------------
(* Programs and small process tables for KillAll.                          *)
EXTENDS KillAll

CONSTANTS c1, c2

ProgramNames == {"v", "k", "s", "h", "l", "longname", "longn"}

Other == [op |-> "other"]
Kills(n) == [op |-> "killall", name |-> n]
Program(prty, c) == [priority |-> prty, code |-> c]

(* A victim, one that kills victims, one that kills its own kind, one      *)
(* whose better priority hides the victims, and one that kills early, by a *)
(* name that a path was cut to.                                            *)
Programs ==
  [n \in ProgramNames |->
     CASE n = "v" -> Program(1, <<Other, Other, Other, Other>>)
       [] n = "k" -> Program(2, <<Other, Other, Other, Kills("v"), Other>>)
       [] n = "s" -> Program(1, <<Other, Other, Other, Kills("s"), Other>>)
       [] n = "h" -> Program(0, <<Other, Other, Other, Kills("v"), Other>>)
       [] n = "l" -> Program(3, <<Other, Kills("longn"), Other>>)
       [] OTHER -> Program(3, <<Other, Other>>)]

(* Five characters of a name are kept.                                     *)
Paths == [n \in ProgramNames |-> IF n = "longname" THEN "longn" ELSE n]

Table(start, prio, files) ==
  [p \in Procs |-> [start |-> start[p], prio |-> prio[p],
                    priority |-> Programs[files[p]].priority,
                    size |-> Len(Programs[files[p]].code)]]

(* Every assignment of two queues; the early killall may meet the loader.  *)
KillTables ==
  {Table(<<0, 0, 0>>, r, f) :
     r \in [Procs -> {0, 1}],
     f \in {<<"k", "v", "v">>, <<"v", "k", "longname">>, <<"s", "s", "v">>,
            <<"v", "s", "k">>, <<"longname", "k", "v">>, <<"h", "v", "k">>,
            <<"longname", "l", "v">>, <<"l", "longname", "h">>}}
==============================================================================
