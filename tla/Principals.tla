------------------------------ MODULE Principals ------------------------------
(***************************************************************************)
(* How a request becomes a verified principal.  A bearer credential of the *)
(* shape of a JWT is an access token when OIDC is configured: its key is   *)
(* looked up in the cache of the issuer's keys, which one refresh replaces *)
(* when the key id is unknown.  Any other credential is a session.  Both   *)
(* end at the membership row of the store.  Key ids number the issuer's    *)
(* keys; issuer, audience and algorithm are folded into whether a token is *)
(* genuine; tenant and company are one scope, and a clock in ticks stands  *)
(* for the three time claims.  The local_dev method, which yields no       *)
(* membership and so no authority, is left out.                            *)
(***************************************************************************)
EXTENDS Naturals, FiniteSets

CONSTANTS Requests,                   \* handlers, each serving a request at a time
          ClockSkew,
          MaxKeys, MaxTime, MaxStarts \* bounds

PrincipalsAssumption ==
    /\ ClockSkew \in Nat /\ MaxKeys \in Nat \ {0} /\ MaxTime \in Nat /\ MaxStarts \in Nat

VARIABLES
    configured,  \* is OIDC configured
    issued,      \* keys the issuer has created: 1..issued
    served,      \* those its JWKS document lists
    cache,       \* the keys the validator holds
    dropped,     \* history: keys a completed refresh found withdrawn
    overtaken,   \* history: requests between whose own refresh steps another replaced the keys
    late,        \* history: did an overtaken answer replace the keys last
    member,      \* is the membership of the subject active, with its company
    session,     \* "valid" or "revoked"; it expires at SessionExpiry
    clock, starts,
    req          \* of each handler: the request it serves

vars == <<configured, issued, served, cache, dropped, overtaken, late,
          member, session, clock, starts, req>>
world == <<configured, issued, served, member, session, clock, starts>>
overlap == <<overtaken, late>>

SessionExpiry == MaxTime
TokenExpiry   == 1

Tokens == [kind : {"jwt"}, kid : 0..MaxKeys, genuine : BOOLEAN, scope : {"own", "foreign"}]
Credentials == Tokens \cup {[kind |-> "session"]}

Idle  == [phase |-> "idle"]
Ended == {"unknown_key", "invalid", "inactive", "acted"}
Phases == {"idle", "lookup", "fetch", "answered", "replaced", "claims", "session", "membership", "principal"} \cup Ended

Fetched(r) == req[r].got

\* INVARIANT.  Types; a request keeps its credential until it ends.
TypeOK ==
    /\ cache \subseteq 1..issued /\ served \subseteq 1..issued /\ dropped \subseteq 1..issued
    /\ overtaken \subseteq Requests /\ late \in BOOLEAN
    /\ \A r \in Requests :
          /\ req[r].phase \in Phases
          /\ req[r].phase # "idle" => req[r].cred \in Credentials
          /\ req[r].phase \in {"answered", "replaced", "unknown_key"} => Fetched(r).served \subseteq 1..Fetched(r).issued

Init ==
    /\ configured \in BOOLEAN
    /\ issued = 1 /\ served = {1} /\ cache = {} /\ dropped = {}
    /\ overtaken = {} /\ late = FALSE
    /\ member = TRUE /\ session = "valid" /\ clock = 0 /\ starts = 0
    /\ req = [r \in Requests |-> Idle]

Goes(r, phase) == req' = [req EXCEPT ![r].phase = phase]

-----------------------------------------------------------------------------
\* The rest of the world: the issuer's keys, the membership and session rows, time.
Rotate == /\ issued < MaxKeys
          /\ issued' = issued + 1 /\ served' = served \cup {issued + 1}
          /\ UNCHANGED <<configured, cache, dropped, overlap, member, session, clock, starts, req>>

Withdraw == \E k \in served : /\ served' = served \ {k}
                              /\ UNCHANGED <<configured, issued, cache, dropped, overlap, member, session, clock, starts, req>>

SetMember(active) ==
    /\ member # active
    /\ member' = active
    /\ req' = [r \in Requests |-> IF active /\ req[r].phase # "idle"
                                  THEN [req[r] EXCEPT !.wasMember = TRUE] ELSE req[r]]
    /\ UNCHANGED <<configured, issued, served, cache, dropped, overlap, session, clock, starts>>

Revoke == /\ session = "valid" /\ session' = "revoked"
          /\ UNCHANGED <<configured, issued, served, cache, dropped, overlap, member, clock, starts, req>>

Tick == /\ clock < MaxTime /\ clock' = clock + 1
        /\ UNCHANGED <<configured, issued, served, cache, dropped, overlap, member, session, starts, req>>

\* A new process starts with an empty cache; its requests died with the old one.
Restart == /\ starts < MaxStarts /\ starts' = starts + 1
           /\ cache' = {} /\ overtaken' = {} /\ late' = FALSE
           /\ req' = [r \in Requests |-> Idle]
           /\ UNCHANGED <<configured, issued, served, dropped, member, session, clock>>

-----------------------------------------------------------------------------
Arrive(r, cred) ==
    /\ req[r].phase = "idle"
    /\ cred.kind = "jwt" => (cred.genuine => cred.kid \in 1..issued)
    /\ req' = [req EXCEPT ![r] =
           [phase |-> IF configured /\ cred.kind = "jwt" THEN "lookup" ELSE "session",
            cred |-> cred, got |-> [served |-> {}, issued |-> 0],
            wasMember |-> member, wasLive |-> FALSE]]
    /\ UNCHANGED <<world, cache, dropped, overlap>>

LookupKey(r) ==
    /\ req[r].phase = "lookup"
    /\ Goes(r, IF req[r].cred.kid \in cache THEN "claims" ELSE "fetch")
    /\ UNCHANGED <<world, cache, dropped, overlap>>

\* The document is what the issuer serves when it answers.
Fetch(r) ==
    /\ req[r].phase = "fetch"
    /\ req' = [req EXCEPT ![r].phase = "answered", ![r].got = [served |-> served, issued |-> issued]]
    /\ overtaken' = overtaken \ {r}
    /\ UNCHANGED <<world, cache, dropped, late>>

\* No answer within the client's timeout, a bad status or a malformed key.
FetchFails(r) == /\ req[r].phase = "fetch" /\ Goes(r, "invalid")
                 /\ UNCHANGED <<world, cache, dropped, overlap>>

\* The other requests that have an answer are overtaken.
Overtake(r) == /\ late' = (r \in overtaken)
               /\ overtaken' = (overtaken \ {r}) \cup
                      {s \in Requests \ {r} : req[s].phase \in {"answered", "replaced"}}
Drop(r) == dropped' = dropped \cup (1..Fetched(r).issued \ Fetched(r).served)

\* MUTANT of Replace: the fetched keys are added to the cached ones.
ReplaceMerging(r) ==
    /\ req[r].phase = "answered"
    /\ cache' = cache \cup Fetched(r).served /\ Drop(r) /\ Overtake(r) /\ Goes(r, "replaced")
    /\ UNCHANGED world

\* MUTANT of Replace: only an empty cache is filled.
ReplaceWhenEmpty(r) ==
    /\ req[r].phase = "answered"
    /\ cache' = IF cache = {} THEN Fetched(r).served ELSE cache
    /\ dropped' = dropped /\ Overtake(r) /\ Goes(r, "replaced")
    /\ UNCHANGED world

\* The answer replaces the cached set, whichever answer came in between.
Replace(r) ==
    /\ req[r].phase = "answered"
    /\ cache' = Fetched(r).served /\ Drop(r) /\ Overtake(r) /\ Goes(r, "replaced")
    /\ UNCHANGED world

\* MUTANT of FinalLookup: a key that is still unknown is fetched again.
FinalLookupRetries(r) ==
    /\ req[r].phase = "replaced"
    /\ Goes(r, IF req[r].cred.kid \in cache THEN "claims" ELSE "fetch")
    /\ UNCHANGED <<world, cache, dropped, overlap>>

FinalLookup(r) ==
    /\ req[r].phase = "replaced"
    /\ Goes(r, IF req[r].cred.kid \in cache THEN "claims" ELSE "unknown_key")
    /\ UNCHANGED <<world, cache, dropped, overlap>>

Expired == clock > TokenExpiry + ClockSkew

\* The signature first, then the claims.
ValidateClaims(r) ==
    /\ req[r].phase = "claims"
    /\ req' = [req EXCEPT ![r].phase = IF req[r].cred.genuine /\ ~Expired THEN "membership" ELSE "invalid",
                          ![r].wasLive = ~Expired]
    /\ UNCHANGED <<world, cache, dropped, overlap>>

\* A session that is unknown, revoked or expired ends here, and so does one whose
\* membership is inactive (the resolver reports both as an invalid principal); a
\* JWT without OIDC is an unknown session.
LookupSession(r) ==
    /\ req[r].phase = "session"
    /\ req' = [req EXCEPT
           ![r].phase = IF \/ req[r].cred.kind = "jwt" \/ ~member
                           \/ session = "revoked" \/ clock >= SessionExpiry
                        THEN "invalid" ELSE "membership",
           ![r].wasLive = session = "valid" /\ clock < SessionExpiry]
    /\ UNCHANGED <<world, cache, dropped, overlap>>

\* MUTANT of LoadMembership: the claims of a verified token are taken at their word.
LoadMembershipOfSessions(r) ==
    /\ req[r].phase = "membership"
    /\ Goes(r, IF req[r].cred.kind = "jwt" \/ member THEN "principal" ELSE "inactive")
    /\ UNCHANGED <<world, cache, dropped, overlap>>

LoadMembership(r) ==
    /\ req[r].phase = "membership"
    /\ Goes(r, IF req[r].cred.kind = "jwt" /\ req[r].cred.scope = "foreign" THEN "invalid"
               ELSE IF member THEN "principal" ELSE "inactive")
    /\ UNCHANGED <<world, cache, dropped, overlap>>

\* The protected operation trusts the principal it was given.
Act(r) == /\ req[r].phase = "principal" /\ Goes(r, "acted")
          /\ UNCHANGED <<world, cache, dropped, overlap>>

\* MUTANT of Answer: the credential is forgotten, the request's outcome is not.
AnswerKeepsAlive(r) ==
    /\ req[r].phase \in Ended /\ req' = [req EXCEPT ![r].cred = Idle]
    /\ UNCHANGED <<world, cache, dropped, overlap>>

Answer(r) == /\ req[r].phase \in Ended /\ req' = [req EXCEPT ![r] = Idle]
             /\ UNCHANGED <<world, cache, dropped, overlap>>

Outside == Rotate \/ Withdraw \/ Revoke \/ Tick \/ Restart
           \/ \E active \in BOOLEAN : SetMember(active)
KeyStep(r)   == LookupKey(r) \/ Fetch(r) \/ FetchFails(r) \/ Replace(r) \/ FinalLookup(r)
StoreStep(r) == ValidateClaims(r) \/ LookupSession(r) \/ LoadMembership(r) \/ Act(r) \/ Answer(r)

Next == \/ Outside
        \/ \E r \in Requests : \/ \E cred \in Credentials : Arrive(r, cred)
                               \/ KeyStep(r)
                               \/ StoreStep(r)

\* A handler that was started goes on, and a fetch ends with the client's timeout.
Fairness == \A r \in Requests : WF_vars(KeyStep(r) \/ StoreStep(r))
Spec     == Init /\ [][Next]_vars
FairSpec == Spec /\ Fairness

-----------------------------------------------------------------------------
\* INVARIANT.  A key that a refresh found withdrawn is out of the cache for good; only
\* an answer that another refresh overtook brings it back, until the next that was not.
RotatedOutKeyStaysOut == ~late => cache \cap dropped = {}

\* INVARIANT.  A request is not refused for a key that the document it fetched itself
\* lists, unless another refresh replaced the keys between its own refresh and lookup.
CurrentKeyAccepted ==
    \A r \in Requests :
        (req[r].phase = "unknown_key" /\ req[r].cred.kid \in Fetched(r).served) => r \in overtaken

\* INVARIANT.  Whatever refreshes overlap, the cache follows the issuer but for what
\* an overtaken answer does to it.
KeyCacheFollowsIssuer == RotatedOutKeyStaysOut /\ CurrentKeyAccepted

\* VIOLATED.  "It is safe for concurrent use: the JWKS cache is guarded by a mutex"
\* (internal/auth/oidc_jwks.go:37): the mutex does not order the refreshes.
ConcurrentUseIsSafe ==
    /\ cache \cap dropped = {}
    /\ \A r \in Requests : req[r].phase = "unknown_key" => req[r].cred.kid \notin Fetched(r).served

\* INVARIANT.  Whoever acts showed a credential that was genuine and not expired when
\* it was verified, for its own scope, and was a member at some time since it arrived.
ActsUnderMembership ==
    \A r \in Requests :
        req[r].phase \in {"principal", "acted"} =>
            /\ req[r].wasMember /\ req[r].wasLive
            /\ req[r].cred.kind = "jwt" => req[r].cred.genuine /\ req[r].cred.scope = "own"

\* INVARIANT, VIOLATED.  auth/resolver.go: a session whose membership or company is
\* inactive is refused as inactive, not as an invalid session.
InactiveMembershipIsReported ==
    \A r \in Requests :
        (req[r].phase = "invalid" /\ req[r].cred.kind = "session") => ~req[r].wasLive

\* LIVENESS.  Every request is answered, also when the issuer does not answer or has
\* never heard of the key.
RequestsAnswered == \A r \in Requests : req[r].phase # "idle" ~> req[r].phase = "idle"

=============================================================================
