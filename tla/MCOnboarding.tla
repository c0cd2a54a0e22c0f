---------------------------- MODULE MCOnboarding ----------------------------
(* Two people who register over two e-mails, and calls - a double click,   *)
(* or a retry after an error - that use either an invitation or a magic    *)
(* link: the tokens have nothing in common but the organization, so a      *)
(* behaviour has calls of one kind.  Two failures or stops of the API; see *)
(* Onboarding.cfg.  Calls of one kind, and e-mails, are alike.             *)
EXTENDS Onboarding, TLC

CONSTANTS ea, eb, r1, r2, a1, a2, a3, v1, v2, i1, l1

VARIABLE door  \* the calls that use a token

DoorInit == door \in {Accepts, Verifies} /\ EntryInit

DoorNext ==
  /\ UNCHANGED door
  /\ EntryNext /\ \A c \in Calls \ (Registrations \cup door) : call'[c] = call[c]

DoorSpec == DoorInit /\ [][DoorNext]_<<door, entryVars>>

Interchangeable ==
  Permutations(Emails) \cup Permutations(Registrations)
    \cup Permutations(Accepts) \cup Permutations(Verifies)
=============================================================================
