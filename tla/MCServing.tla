------------------------------ MODULE MCServing ------------------------------
(***************************************************************************)
(* The instance of the modules about what must happen before an operation  *)
(* runs: the chain of migrations that opens the store, and the resolution  *)
(* of the principal.  They meet in no table, so a behaviour belongs to one *)
(* of them, its part, and leaves the other where it starts; the states are *)
(* the sum of both.                                                        *)
(***************************************************************************)
EXTENDS Principals, TLC

CONSTANTS Processes, Upgrader, OldVersion, Foreign, MaxOpens, Lone

VARIABLES version, objects, foreign, guard, row, proc, opens, part

opening == <<version, objects, foreign, guard, row, proc, opens>>

-----------------------------------------------------------------------------
\* One process at a time upgrades a store of an old version, in which something else
\* may have created tables, and dies where it likes.
Upgrade == INSTANCE Migrations WITH
    Processes <- {Upgrader}, First <- OldVersion, MaxStarts <- MaxOpens, starts <- opens

\* Two processes open a store that does not exist yet, again and again.
Openers == INSTANCE Migrations WITH First <- 0, Foreign <- {}, MaxStarts <- MaxOpens, starts <- opens

ASSUME PartsAssumption ==
    /\ Upgrade!MigrationsAssumption /\ Openers!MigrationsAssumption /\ PrincipalsAssumption

-----------------------------------------------------------------------------
MCInit ==
    /\ Init
    /\ \/ part \in {"principals", "refreshes", "openers"} /\ Openers!Init
       \/ part = "upgrade" /\ Upgrade!Init

UpgradePart == part = "upgrade" /\ Upgrade!Next /\ UNCHANGED <<vars, part>>
OpenersPart == part = "openers" /\ Openers!Next /\ UNCHANGED <<vars, part>>

\* One request, before everything that changes beside it.
PrincipalPart == /\ part = "principals" /\ Next /\ UNCHANGED <<opening, part>>
                 /\ \A r \in Requests \ {Lone} : req'[r] = req[r]

\* Several requests, with good tokens of keys old and new.
GoodTokens  == {cred \in Tokens : cred.genuine /\ cred.scope = "own"}
RefreshPart == /\ part = "refreshes" /\ Next /\ UNCHANGED <<opening, part, member, session, clock>>
               /\ \A r \in Requests : req'[r].phase # "idle" => req'[r].cred \in GoodTokens

MCNext == UpgradePart \/ OpenersPart \/ PrincipalPart \/ RefreshPart
MCSpec == MCInit /\ [][MCNext]_<<opening, vars, part>> /\ Fairness

-----------------------------------------------------------------------------
\* INVARIANT.  The layout of the store and the requests are well typed.
TypesOK == /\ IF part = "upgrade" THEN Upgrade!TypeOK ELSE Openers!TypeOK
           /\ TypeOK

\* INVARIANT.  A store opens whole or not at all.  An interrupted upgrade by one
\* process goes on at the next open, and objects that no migration created stop it
\* before their step; when several processes create the store, its version says which
\* objects there are, and one that serves has the whole layout and the newest guard.
StoreOpensWhole ==
    /\ part = "upgrade" => Upgrade!ChainReRuns /\ Upgrade!ForeignIsRefused
    /\ part = "openers" => Openers!VersionTellsObjects /\ Openers!ServedLayoutIsComplete
=============================================================================
