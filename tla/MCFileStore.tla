---------------------------- MODULE MCFileStore ----------------------------
(* Instances of FileStore.                                                 *)
EXTENDS FileStore

\* One file and one share, two sessions, sessions and shares that run out,
\* kills, and statements that fail.
Faults == Scenario(TRUE, TRUE, 2, 3, 2, 1, 1)

\* Two files, two shares and two sessions at once; nothing runs out and nothing fails.
Sharing == Scenario(FALSE, FALSE, 2, 0, 2, 2, 2)

MCScenarios == {Faults, Sharing}

\* What a step depends on.  No handler reads the histories reply and act, and the
\* properties speak of them only after a step: states that differ in them alone
\* are visited once, with every step that leaves them.
Stored == <<sc, now, tables, disk, uploads, caller, ids>>
=============================================================================
