----------------------------- MODULE MCMigrator -----------------------------
(***************************************************************************)
(* Two releases: the second has edited a file of the first and added one.  *)
(* They migrate up, or the second back down; a third process reverts two   *)
(* versions or asks for the status.                                        *)
(***************************************************************************)
EXTENDS Migrator

CONSTANTS m1, m2, m3

MCCommands == [m \in Migrators |-> CASE m = m1 -> {"up"}
                                     [] m = m2 -> {"up", "down"}
                                     [] OTHER  -> {"down", "status"}]
MCSteps == [m \in Migrators |-> 2]
MCUp == [m \in Migrators |->
           CASE m = m1 -> [v \in Versions |-> CASE v = 1 -> "a" [] v = 2 -> "b" [] OTHER -> None]
             [] m = m2 -> [v \in Versions |-> CASE v = 1 -> "a" [] v = 2 -> "b2" [] OTHER -> "c"]
             [] OTHER  -> [v \in Versions |-> CASE v = 1 -> "a" [] v = 2 -> "b" [] OTHER -> None]]
MCDown == [m \in Migrators |-> IF m = m2 THEN {2, 3} ELSE {1, 2}]
=============================================================================
