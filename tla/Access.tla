------------------------------- MODULE Access -------------------------------
(***************************************************************************)
(* What the file manager promises about who gets which file.  A file has   *)
(* one owner for as long as it exists, who alone can remove or share it.   *)
(* A grant that has been withdrawn, or has run out, never comes back.  A   *)
(* file is given only to its owner or on a grant that stands at that       *)
(* moment.                                                                 *)
(***************************************************************************)
EXTENDS Integers

CONSTANTS Users, Nobody

VARIABLES
    owned,     \* the files, with their owners: [file, owner]
    grants,    \* the grants that stand: [id, file, type, with]
    issued,    \* number of grants issued so far
    act        \* the last thing done for a user, and whether it showed a key

accessVars == <<owned, grants, issued, act>>

Act(op, u, f, g, key) ==
    [op |-> op, user |-> u, file |-> f, grant |-> g, key |-> key]
Idle == Act("none", Nobody, 0, 0, FALSE)
Owns(u, f) == [file |-> f, owner |-> u] \in owned

Init ==
    /\ owned = {} /\ grants = {} /\ issued = 0
    /\ act = Idle

\* A file that did not exist becomes u's.
Add(u, f) ==
    /\ act' = Idle
    /\ f \notin {o.file : o \in owned}
    /\ owned' = owned \cup {[file |-> f, owner |-> u]}
    /\ UNCHANGED <<grants, issued>>

\* The owner removes a file, and every grant for it goes with it.
Remove(u, f) ==
    /\ act' = Act("remove", u, f, 0, FALSE)
    /\ Owns(u, f)
    /\ owned' = owned \ {[file |-> f, owner |-> u]}
    /\ grants' = {g \in grants : g.file # f}
    /\ UNCHANGED issued

\* The owner issues a new grant.
Grant(u, f, type, with) ==
    /\ act' = Act("grant", u, f, issued + 1, FALSE)
    /\ Owns(u, f)
    /\ issued' = issued + 1
    /\ grants' = grants \cup {[id |-> issued + 1, file |-> f, type |-> type,
                               with |-> with]}
    /\ UNCHANGED owned

\* Some grants run out.
RunOut ==
    /\ act' = Idle
    /\ grants' \subseteq grants
    /\ UNCHANGED <<owned, issued>>

\* The owner withdraws the grants for a file.
Withdraw(u, f) ==
    /\ act' = Act("withdraw", u, f, 0, FALSE)
    /\ Owns(u, f)
    /\ grants' \subseteq grants
    /\ \A g \in grants \ grants' : g.file = f
    /\ UNCHANGED <<owned, issued>>

\* Whom a grant opens the file to: anyone, whoever knows the key, one user.
Opens(g, u, key) ==
    \/ g.type = "public"
    \/ g.type = "protected" /\ key
    \/ g.type = "user" /\ u # Nobody /\ g.with = u

\* A file is given to u: as its owner, or on the grant id.
Give(u, f, id, key) ==
    /\ act' = Act("give", u, f, id, key)
    /\ \/ Owns(u, f)
       \/ \E g \in grants : g.id = id /\ g.file = f /\ Opens(g, u, key)
    /\ UNCHANGED <<owned, grants, issued>>

\* act' says who does what, to which file; owned' and grants' say what is new.
Next ==
    \/ RunOut
    \/ \E o \in owned' : Add(o.owner, o.file)
    \/ \E u \in Users \cup {Nobody} :
          /\ u = act'.user
          /\ \/ Remove(u, act'.file) \/ Withdraw(u, act'.file)
             \/ \E g \in grants' : Grant(u, act'.file, g.type, g.with)
             \/ Give(u, act'.file, act'.grant, act'.key)

Spec == Init /\ [][Next]_accessVars
=============================================================================
