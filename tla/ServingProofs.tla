---------------------------- MODULE ServingProofs -----------------------------
(***************************************************************************)
(* Proofs about what must happen before an operation runs.  Principals:    *)
(* for any number of concurrent requests, keys, restarts and ticks, who    *)
(* acts was a member and showed a live, genuine credential; and the cache  *)
(* of keys follows the issuer but for what an overtaken answer does to it. *)
(* Migrations: a store opens whole or not at all.                          *)
(***************************************************************************)
EXTENDS MCServing, TLAPS

\* A request that is being served: its answer from the issuer is empty until it came.
Serving == [phase : Phases \ {"idle"}, cred : Credentials,
            got : [served : SUBSET Nat, issued : Nat],
            wasMember : BOOLEAN, wasLive : BOOLEAN]

KeysTyped ==
    /\ issued \in Nat
    /\ served \subseteq 1..issued /\ cache \subseteq 1..issued /\ dropped \subseteq 1..issued

WorldTyped ==
    /\ configured \in BOOLEAN /\ member \in BOOLEAN
    /\ session \in {"valid", "revoked"} /\ clock \in Nat

RequestsTyped == req \in [Requests -> {Idle} \cup Serving]

\* What the issuer answered is older than what it would answer now.
AnswerBounded(q) ==
    q.phase \in {"answered", "replaced", "unknown_key"} =>
        q.got.issued <= issued /\ q.got.served \subseteq 1..q.got.issued

Typed == /\ KeysTyped /\ WorldTyped /\ RequestsTyped
         /\ \A r \in Requests : AnswerBounded(req[r])

-----------------------------------------------------------------------------
\* The steps of one request leave the requests of the others alone.  What a step
\* makes of its own request is one of these.
Moved(q, phase) == [q EXCEPT !.phase = phase]
Got(q) == [q EXCEPT !.phase = "answered", !.got = [served |-> served, issued |-> issued]]
Judged(q, phase, live) == [q EXCEPT !.phase = phase, !.wasLive = live]
Admitted(q) == [q EXCEPT !.wasMember = TRUE]
Begun(phase, cred) ==
    [phase |-> phase, cred |-> cred, got |-> [served |-> {}, issued |-> 0],
     wasMember |-> member, wasLive |-> FALSE]

\* The requests after a step that makes q of the request of r.
Becomes(r, q) == req' = [req EXCEPT ![r] = q]

LEMMA MovedServing ==
    ASSUME NEW q \in Serving, NEW phase \in Phases \ {"idle"}
    PROVE  /\ Moved(q, phase) \in Serving /\ Moved(q, phase).phase = phase
           /\ Moved(q, phase).cred = q.cred /\ Moved(q, phase).got = q.got
           /\ Moved(q, phase).wasMember = q.wasMember /\ Moved(q, phase).wasLive = q.wasLive
BY DEF Moved, Serving

LEMMA GotServing ==
    ASSUME NEW q \in Serving, KeysTyped
    PROVE  /\ Got(q) \in Serving /\ Got(q).phase = "answered"
           /\ Got(q).cred = q.cred /\ Got(q).got.served = served /\ Got(q).got.issued = issued
           /\ Got(q).wasMember = q.wasMember /\ Got(q).wasLive = q.wasLive
<1>1. [served |-> served, issued |-> issued] \in [served : SUBSET Nat, issued : Nat]
  BY DEF KeysTyped
<1>. QED  BY <1>1 DEF Got, Serving, Phases

LEMMA JudgedServing ==
    ASSUME NEW q \in Serving, NEW phase \in Phases \ {"idle"}, NEW live \in BOOLEAN
    PROVE  /\ Judged(q, phase, live) \in Serving /\ Judged(q, phase, live).phase = phase
           /\ Judged(q, phase, live).cred = q.cred /\ Judged(q, phase, live).got = q.got
           /\ Judged(q, phase, live).wasMember = q.wasMember
           /\ Judged(q, phase, live).wasLive <=> live
BY DEF Judged, Serving

LEMMA AdmittedServing ==
    ASSUME NEW q \in Serving
    PROVE  /\ Admitted(q) \in Serving /\ Admitted(q).phase = q.phase
           /\ Admitted(q).cred = q.cred /\ Admitted(q).got = q.got
           /\ Admitted(q).wasMember /\ Admitted(q).wasLive = q.wasLive
BY DEF Admitted, Serving

LEMMA BegunServing ==
    ASSUME NEW cred \in Credentials, NEW phase \in {"lookup", "session"}, WorldTyped
    PROVE  /\ Begun(phase, cred) \in Serving /\ Begun(phase, cred).phase = phase
           /\ Begun(phase, cred).cred = cred
           /\ Begun(phase, cred).wasMember = member /\ ~Begun(phase, cred).wasLive
BY DEF Begun, Serving, Phases, WorldTyped

\* A request in a phase other than idle is served.
LEMMA Served ==
    ASSUME RequestsTyped, NEW r \in Requests, req[r].phase # "idle"
    PROVE  req[r] \in Serving
BY DEF RequestsTyped, Idle

\* A step of r leaves the others' requests where they are.
LEMMA OthersStay ==
    ASSUME RequestsTyped, NEW r \in Requests, NEW q \in {Idle} \cup Serving, Becomes(r, q)
    PROVE  /\ RequestsTyped' /\ req'[r] = q
           /\ \A s \in Requests \ {r} : req'[s] = req[s]
BY DEF RequestsTyped, Becomes

\* A step of r that leaves the world alone keeps the types, if the cache and the
\* dropped keys stay keys and the answer of the new request is not newer than now.
LEMMA StepTyped ==
    ASSUME Typed, NEW r \in Requests, NEW q \in {Idle} \cup Serving, Becomes(r, q),
           UNCHANGED world, cache' \subseteq 1..issued, dropped' \subseteq 1..issued,
           AnswerBounded(q)
    PROVE  Typed'
<1>1. RequestsTyped' /\ req'[r] = q /\ \A s \in Requests \ {r} : req'[s] = req[s]
  BY OthersStay DEF Typed
<1>2. KeysTyped' /\ WorldTyped'
  BY DEF Typed, KeysTyped, WorldTyped, world
<1>3. issued' = issued
  BY DEF world
<1>4. ASSUME NEW s \in Requests PROVE AnswerBounded(req'[s])
  <2>1. CASE s = r
    BY <2>1, <1>1
  <2>2. CASE s # r
    BY <2>2, <1>1 DEF Typed
  <2>. QED  BY <2>1, <2>2
<1>5. \A s \in Requests : AnswerBounded(req[s])'
  BY <1>3, <1>4 DEF AnswerBounded
<1>. QED  BY <1>1, <1>2, <1>5 DEF Typed

\* What an action makes of the request of r, when that is not an arrival.
LEMMA KeyMoves ==
    ASSUME Typed, NEW r \in Requests
    PROVE  /\ LookupKey(r) => \E phase \in {"claims", "fetch"} : Becomes(r, Moved(req[r], phase))
           /\ Fetch(r) => Becomes(r, Got(req[r]))
           /\ FetchFails(r) => Becomes(r, Moved(req[r], "invalid"))
           /\ Replace(r) => Becomes(r, Moved(req[r], "replaced"))
           /\ FinalLookup(r) => Becomes(r, Moved(req[r], IF req[r].cred.kid \in cache
                                                         THEN "claims" ELSE "unknown_key"))
<1>1. LookupKey(r) => \E phase \in {"claims", "fetch"} : Becomes(r, Moved(req[r], phase))
  BY DEF LookupKey, Goes, Becomes, Moved
<1>2. Fetch(r) => Becomes(r, Got(req[r]))
  BY DEF Fetch, Becomes, Got, Typed, RequestsTyped
<1>3. FetchFails(r) => Becomes(r, Moved(req[r], "invalid"))
  BY DEF FetchFails, Goes, Becomes, Moved
<1>4. Replace(r) => Becomes(r, Moved(req[r], "replaced"))
  BY DEF Replace, Goes, Becomes, Moved
<1>5. FinalLookup(r) => Becomes(r, Moved(req[r], IF req[r].cred.kid \in cache
                                                 THEN "claims" ELSE "unknown_key"))
  BY DEF FinalLookup, Goes, Becomes, Moved
<1>. QED  BY <1>1, <1>2, <1>3, <1>4, <1>5

LEMMA StoreMoves ==
    ASSUME PrincipalsAssumption, Typed, NEW r \in Requests
    PROVE  /\ ValidateClaims(r) =>
                  \E phase \in {"invalid", "membership"}, live \in BOOLEAN :
                      /\ Becomes(r, Judged(req[r], phase, live))
                      /\ phase = "membership" => live /\ req[r].cred.genuine
           /\ LookupSession(r) =>
                  \E phase \in {"invalid", "membership"}, live \in BOOLEAN :
                      /\ Becomes(r, Judged(req[r], phase, live))
                      /\ phase = "membership" => live /\ req[r].cred.kind # "jwt"
           /\ LoadMembership(r) =>
                  \E phase \in {"invalid", "inactive", "principal"} :
                      /\ Becomes(r, Moved(req[r], phase))
                      /\ phase = "principal" =>
                            member /\ ~(req[r].cred.kind = "jwt" /\ req[r].cred.scope = "foreign")
           /\ Act(r) => Becomes(r, Moved(req[r], "acted"))
           /\ Answer(r) => Becomes(r, Idle)
<1>1. ValidateClaims(r) =>
          \E phase \in {"invalid", "membership"}, live \in BOOLEAN :
              /\ Becomes(r, Judged(req[r], phase, live))
              /\ phase = "membership" => live /\ req[r].cred.genuine
  <2>. SUFFICES ASSUME ValidateClaims(r)
                PROVE  \E phase \in {"invalid", "membership"}, live \in BOOLEAN :
                           /\ Becomes(r, Judged(req[r], phase, live))
                           /\ phase = "membership" => live /\ req[r].cred.genuine
    OBVIOUS
  <2>1. CASE Expired
    <3>1. Becomes(r, Judged(req[r], "invalid", FALSE))
      BY <2>1 DEF ValidateClaims, Becomes, Judged, Typed, RequestsTyped
    <3>. QED  BY <3>1
  <2>2. CASE ~Expired
    <3>. DEFINE phase == IF req[r].cred.genuine THEN "membership" ELSE "invalid"
    <3>1. Becomes(r, Judged(req[r], phase, TRUE))
      BY <2>2 DEF ValidateClaims, Becomes, Judged, Typed, RequestsTyped
    <3>. QED  BY <3>1
  <2>. QED  BY <2>1, <2>2
<1>2. LookupSession(r) =>
          \E phase \in {"invalid", "membership"}, live \in BOOLEAN :
              /\ Becomes(r, Judged(req[r], phase, live))
              /\ phase = "membership" => live /\ req[r].cred.kind # "jwt"
  <2>. SUFFICES ASSUME LookupSession(r)
                PROVE  \E phase \in {"invalid", "membership"}, live \in BOOLEAN :
                           /\ Becomes(r, Judged(req[r], phase, live))
                           /\ phase = "membership" => live /\ req[r].cred.kind # "jwt"
    OBVIOUS
  <2>. DEFINE live == session = "valid" /\ clock < SessionExpiry
              phase == IF \/ req[r].cred.kind = "jwt" \/ ~member
                          \/ session = "revoked" \/ clock >= SessionExpiry
                       THEN "invalid" ELSE "membership"
  <2>1. live \in BOOLEAN /\ phase \in {"invalid", "membership"}
    OBVIOUS
  <2>2. Becomes(r, Judged(req[r], phase, live))
    BY DEF LookupSession, Becomes, Judged, Typed, RequestsTyped
  <2>3. phase = "membership" => live /\ req[r].cred.kind # "jwt"
    BY DEF Typed, WorldTyped, PrincipalsAssumption, SessionExpiry
  <2>. HIDE DEF live, phase
  <2>. QED  BY <2>1, <2>2, <2>3
<1>3. LoadMembership(r) =>
          \E phase \in {"invalid", "inactive", "principal"} :
              /\ Becomes(r, Moved(req[r], phase))
              /\ phase = "principal" =>
                    member /\ ~(req[r].cred.kind = "jwt" /\ req[r].cred.scope = "foreign")
  BY DEF LoadMembership, Goes, Becomes, Moved
<1>4. (Act(r) => Becomes(r, Moved(req[r], "acted"))) /\ (Answer(r) => Becomes(r, Idle))
  BY DEF Act, Answer, Goes, Becomes, Moved
<1>. QED  BY <1>1, <1>2, <1>3, <1>4

-----------------------------------------------------------------------------
\* What one request does: it arrives, or goes on.
RequestStep(r) == \/ \E cred \in Credentials : Arrive(r, cred)
                  \/ KeyStep(r)
                  \/ StoreStep(r)

LEMMA RequestsAreTyped ==
    ASSUME PrincipalsAssumption, Typed, NEW r \in Requests, RequestStep(r)
    PROVE  Typed'
<1>. DEFINE was == req[r]
<1>0. /\ KeysTyped /\ WorldTyped /\ RequestsTyped /\ AnswerBounded(was)
      /\ was.phase # "idle" => was \in Serving
  BY Served DEF Typed
<1>1. ASSUME NEW cred \in Credentials, Arrive(r, cred) PROVE Typed'
  <2>. DEFINE phase == IF configured /\ cred.kind = "jwt" THEN "lookup" ELSE "session"
  <2>1. phase \in {"lookup", "session"} /\ Becomes(r, Begun(phase, cred))
    BY <1>1 DEF Arrive, Becomes, Begun
  <2>2. Begun(phase, cred) \in Serving /\ Begun(phase, cred).phase = phase
    BY <2>1, <1>0, BegunServing
  <2>3. AnswerBounded(Begun(phase, cred))
    BY <2>1, <2>2 DEF AnswerBounded
  <2>4. UNCHANGED world /\ cache' \subseteq 1..issued /\ dropped' \subseteq 1..issued
    BY <1>1, <1>0 DEF Arrive, KeysTyped
  <2>. QED  BY <2>1, <2>2, <2>3, <2>4, StepTyped
<1>2. CASE LookupKey(r)
  <2>1. PICK phase \in {"claims", "fetch"} : Becomes(r, Moved(was, phase))
    BY <1>2, KeyMoves
  <2>2. was.phase = "lookup" /\ UNCHANGED <<world, cache, dropped>>
    BY <1>2 DEF LookupKey
  <2>3. Moved(was, phase) \in Serving /\ Moved(was, phase).phase = phase
    BY <2>2, <1>0, MovedServing DEF Phases
  <2>. QED  BY <2>1, <2>2, <2>3, <1>0, StepTyped DEF AnswerBounded, KeysTyped
<1>3. CASE Fetch(r)
  <2>1. Becomes(r, Got(was)) /\ was.phase = "fetch" /\ UNCHANGED <<world, cache, dropped>>
    BY <1>3, KeyMoves DEF Fetch
  <2>2. Got(was) \in Serving /\ Got(was).got.served = served /\ Got(was).got.issued = issued
    BY <2>1, <1>0, GotServing
  <2>. QED  BY <2>1, <2>2, <1>0, StepTyped DEF AnswerBounded, KeysTyped
<1>4. CASE FetchFails(r)
  <2>1. Becomes(r, Moved(was, "invalid")) /\ was.phase = "fetch" /\ UNCHANGED <<world, cache, dropped>>
    BY <1>4, KeyMoves DEF FetchFails
  <2>2. Moved(was, "invalid") \in Serving /\ Moved(was, "invalid").phase = "invalid"
    BY <2>1, <1>0, MovedServing DEF Phases, Ended
  <2>. QED  BY <2>1, <2>2, <1>0, StepTyped DEF AnswerBounded, KeysTyped
<1>5. CASE Replace(r)
  <2>1. /\ Becomes(r, Moved(was, "replaced")) /\ was.phase = "answered" /\ UNCHANGED world
        /\ cache' = was.got.served /\ dropped' = dropped \cup (1..was.got.issued \ was.got.served)
    BY <1>5, KeyMoves DEF Replace, Drop, Fetched
  <2>2. /\ Moved(was, "replaced") \in Serving /\ Moved(was, "replaced").phase = "replaced"
        /\ Moved(was, "replaced").got = was.got
    BY <2>1, <1>0, MovedServing DEF Phases
  <2>3. was.got.issued \in Nat
    BY <2>1, <1>0 DEF Serving
  <2>4. was.got.issued <= issued /\ was.got.served \subseteq 1..was.got.issued
    BY <2>1, <1>0 DEF AnswerBounded
  <2>5. 1..was.got.issued \subseteq 1..issued
    BY <2>3, <2>4, <1>0 DEF KeysTyped
  <2>6. cache' \subseteq 1..issued /\ dropped' \subseteq 1..issued
    BY <2>1, <2>4, <2>5, <1>0 DEF KeysTyped
  <2>7. AnswerBounded(Moved(was, "replaced"))
    BY <2>2, <2>4 DEF AnswerBounded
  <2>. QED  BY <2>1, <2>2, <2>6, <2>7, StepTyped
<1>6. CASE FinalLookup(r)
  <2>. DEFINE phase == IF was.cred.kid \in cache THEN "claims" ELSE "unknown_key"
  <2>1. Becomes(r, Moved(was, phase)) /\ was.phase = "replaced" /\ UNCHANGED <<world, cache, dropped>>
    BY <1>6, KeyMoves DEF FinalLookup
  <2>2. Moved(was, phase) \in Serving /\ Moved(was, phase).got = was.got
    BY <2>1, <1>0, MovedServing DEF Phases, Ended
  <2>3. AnswerBounded(Moved(was, phase))
    BY <2>1, <2>2, <1>0 DEF AnswerBounded
  <2>. QED  BY <2>1, <2>2, <2>3, <1>0, StepTyped DEF KeysTyped
<1>7. ASSUME NEW q \in {Idle} \cup Serving, Becomes(r, q),
             q.phase \notin {"answered", "replaced", "unknown_key"},
             UNCHANGED <<world, cache, dropped>>
      PROVE  Typed'
  BY <1>7, <1>0, StepTyped DEF AnswerBounded, KeysTyped
<1>8. CASE ValidateClaims(r) \/ LookupSession(r)
  <2>1. PICK phase \in {"invalid", "membership"}, live \in BOOLEAN : Becomes(r, Judged(was, phase, live))
    BY <1>8, StoreMoves
  <2>2. was.phase \in {"claims", "session"} /\ UNCHANGED <<world, cache, dropped>>
    BY <1>8 DEF ValidateClaims, LookupSession
  <2>3. Judged(was, phase, live) \in Serving /\ Judged(was, phase, live).phase = phase
    BY <2>1, <2>2, <1>0, JudgedServing DEF Phases, Ended
  <2>. QED  BY <2>1, <2>2, <2>3, <1>7
<1>10. CASE LoadMembership(r)
  <2>1. PICK phase \in {"invalid", "inactive", "principal"} : Becomes(r, Moved(was, phase))
    BY <1>10, StoreMoves
  <2>2. was.phase = "membership" /\ UNCHANGED <<world, cache, dropped>>
    BY <1>10 DEF LoadMembership
  <2>3. Moved(was, phase) \in Serving /\ Moved(was, phase).phase = phase
    BY <2>1, <2>2, <1>0, MovedServing DEF Phases, Ended
  <2>. QED  BY <2>1, <2>2, <2>3, <1>7
<1>11. CASE Act(r)
  <2>1. Becomes(r, Moved(was, "acted")) /\ was.phase = "principal" /\ UNCHANGED <<world, cache, dropped>>
    BY <1>11, StoreMoves DEF Act
  <2>2. Moved(was, "acted") \in Serving /\ Moved(was, "acted").phase = "acted"
    BY <2>1, <1>0, MovedServing DEF Phases, Ended
  <2>. QED  BY <2>1, <2>2, <1>7
<1>12. CASE Answer(r)
  <2>1. Becomes(r, Idle) /\ UNCHANGED <<world, cache, dropped>>
    BY <1>12, StoreMoves DEF Answer
  <2>. QED  BY <2>1, <1>7 DEF Idle
<1>. QED  BY <1>1, <1>2, <1>3, <1>4, <1>5, <1>6, <1>8, <1>10, <1>11, <1>12
          DEF RequestStep, KeyStep, StoreStep

-----------------------------------------------------------------------------
\* Steps of the rest of the world.
LEMMA OutsideIsTyped ==
    ASSUME PrincipalsAssumption, Typed, Outside
    PROVE  Typed'
<1>0. KeysTyped /\ WorldTyped /\ RequestsTyped /\ \A r \in Requests : AnswerBounded(req[r])
  BY DEF Typed
<1>1. CASE Rotate
  <2>1. /\ issued' = issued + 1 /\ served' = served \cup {issued + 1} /\ req' = req
        /\ UNCHANGED <<configured, cache, dropped, member, session, clock, starts>>
    BY <1>1 DEF Rotate
  <2>2. KeysTyped' /\ WorldTyped' /\ RequestsTyped'
    BY <2>1, <1>0 DEF KeysTyped, WorldTyped, RequestsTyped
  <2>3. ASSUME NEW r \in Requests PROVE AnswerBounded(req[r])'
    <3>1. req[r].phase # "idle" => req[r] \in Serving
      BY <1>0, Served
    <3>2. req[r].phase # "idle" => req[r].got.issued \in Nat
      BY <3>1 DEF Serving
    <3>. QED  BY <2>1, <1>0, <3>2 DEF AnswerBounded, KeysTyped
  <2>. QED  BY <2>2, <2>3 DEF Typed
<1>2. CASE Withdraw
  <2>1. served' \subseteq served
        /\ UNCHANGED <<configured, issued, cache, dropped, member, session, clock, starts, req>>
    BY <1>2 DEF Withdraw
  <2>. QED  BY <2>1, <1>0 DEF Typed, KeysTyped, WorldTyped, RequestsTyped, AnswerBounded
<1>3. CASE Revoke \/ Tick
  <2>1. /\ UNCHANGED <<configured, issued, served, cache, dropped, member, starts, req>>
        /\ session' \in {"valid", "revoked"} /\ clock' \in Nat
    BY <1>3, <1>0 DEF Revoke, Tick, WorldTyped
  <2>. QED  BY <2>1, <1>0 DEF Typed, KeysTyped, WorldTyped, RequestsTyped, AnswerBounded
<1>4. CASE Restart
  <2>1. /\ UNCHANGED <<configured, issued, served, dropped, member, session, clock>>
        /\ cache' = {} /\ req' = [r \in Requests |-> Idle]
    BY <1>4 DEF Restart
  <2>2. \A r \in Requests : req'[r] = Idle
    BY <2>1
  <2>3. \A r \in Requests : AnswerBounded(req[r])'
    BY <2>2 DEF AnswerBounded, Idle
  <2>. QED  BY <2>1, <2>3, <1>0 DEF Typed, KeysTyped, WorldTyped, RequestsTyped
<1>5. ASSUME NEW active \in BOOLEAN, SetMember(active) PROVE Typed'
  <2>1. /\ UNCHANGED <<configured, issued, served, cache, dropped, session, clock, starts>>
        /\ member' \in BOOLEAN
    BY <1>5 DEF SetMember
  <2>2. /\ req' = [r \in Requests |-> req'[r]]
        /\ \A r \in Requests : req'[r] \in {req[r], Admitted(req[r])}
        /\ \A r \in Requests : req[r].phase = "idle" => req'[r] = req[r]
    BY <1>5 DEF SetMember, Admitted
  <2>3. ASSUME NEW r \in Requests
        PROVE  req'[r] \in {Idle} \cup Serving /\ AnswerBounded(req[r])'
    <3>1. CASE req'[r] = req[r]
      BY <3>1, <2>1, <1>0 DEF RequestsTyped, AnswerBounded
    <3>2. CASE req'[r] = Admitted(req[r]) /\ req[r].phase # "idle"
      <4>1. /\ req'[r] \in Serving /\ req'[r].phase = req[r].phase /\ req'[r].got = req[r].got
        BY <3>2, <1>0, Served, AdmittedServing
      <4>. QED  BY <4>1, <2>1, <1>0 DEF AnswerBounded
    <3>. QED  BY <3>1, <3>2, <2>2
  <2>4. RequestsTyped'
    BY <2>2, <2>3 DEF RequestsTyped
  <2>. QED  BY <2>1, <2>3, <2>4, <1>0 DEF Typed, KeysTyped, WorldTyped
<1>. QED  BY <1>1, <1>2, <1>3, <1>4, <1>5 DEF Outside

LEMMA TypedIsInductive ==
    PrincipalsAssumption => /\ Init => Typed
                            /\ Typed /\ [Next]_vars => Typed'
<1>. SUFFICES ASSUME PrincipalsAssumption
              PROVE  (Init => Typed) /\ (Typed /\ [Next]_vars => Typed')
  OBVIOUS
<1>1. ASSUME Init PROVE Typed
  <2>1. \A r \in Requests : req[r] = Idle
    BY <1>1 DEF Init
  <2>2. KeysTyped /\ WorldTyped /\ RequestsTyped
    BY <1>1 DEF Init, KeysTyped, WorldTyped, RequestsTyped
  <2>. QED  BY <2>1, <2>2 DEF Typed, AnswerBounded, Idle
<1>2. ASSUME Typed, [Next]_vars PROVE Typed'
  <2>1. CASE UNCHANGED vars
    BY <2>1, <1>2 DEF vars, Typed, KeysTyped, WorldTyped, RequestsTyped, AnswerBounded
  <2>2. CASE Outside
    BY <2>2, <1>2, OutsideIsTyped
  <2>3. ASSUME NEW r \in Requests, RequestStep(r) PROVE Typed'
    BY <2>3, <1>2, RequestsAreTyped
  <2>. QED  BY <1>2, <2>1, <2>2, <2>3 DEF Next, RequestStep
<1>. QED  BY <1>1, <1>2

OverlapTyped == overtaken \subseteq Requests /\ late \in BOOLEAN

LEMMA OverlapIsTyped == /\ Init => OverlapTyped
                        /\ OverlapTyped /\ [Next]_vars => OverlapTyped'
<1>1. Init => OverlapTyped
  BY DEF Init, OverlapTyped
<1>2. ASSUME OverlapTyped, [Next]_vars PROVE OverlapTyped'
  <2>1. UNCHANGED overlap => OverlapTyped'
    BY <1>2 DEF overlap, OverlapTyped
  <2>2. CASE Restart
    BY <2>2 DEF Restart, OverlapTyped
  <2>3. ASSUME NEW r \in Requests, Fetch(r) \/ Replace(r) PROVE OverlapTyped'
    <3>1. CASE Fetch(r)
      <4>1. overtaken' = overtaken \ {r} /\ UNCHANGED late
        BY <3>1 DEF Fetch
      <4>. QED  BY <4>1, <1>2 DEF OverlapTyped
    <3>2. CASE Replace(r)
      <4>1. Overtake(r)
        BY <3>2 DEF Replace
      <4>2. overtaken' \subseteq Requests
        BY <4>1, <1>2 DEF Overtake, OverlapTyped
      <4>3. late' = (r \in overtaken)
        BY <4>1 DEF Overtake
      <4>4. late' \in BOOLEAN
        <5>1. CASE r \in overtaken
          BY <4>3, <5>1
        <5>2. CASE r \notin overtaken
          BY <4>3, <5>2
        <5>. QED  BY <5>1, <5>2
      <4>. QED  BY <4>2, <4>4 DEF OverlapTyped
    <3>. QED  BY <2>3, <3>1, <3>2
  <2>4. CASE Outside /\ ~Restart
    <3>1. UNCHANGED overlap
      BY <2>4 DEF Outside, Rotate, Withdraw, Revoke, Tick, SetMember
    <3>. QED  BY <2>1, <3>1
  <2>5. ASSUME NEW r \in Requests, RequestStep(r), ~Fetch(r), ~Replace(r) PROVE OverlapTyped'
    <3>1. UNCHANGED overlap
      BY <2>5 DEF RequestStep, KeyStep, StoreStep, Arrive, LookupKey, FetchFails, FinalLookup,
                  ValidateClaims, LookupSession, LoadMembership, Act, Answer
    <3>. QED  BY <2>1, <3>1
  <2>6. CASE UNCHANGED vars
    BY <2>1, <2>6 DEF vars, overlap
  <2>. QED  BY <1>2, <2>2, <2>3, <2>4, <2>5, <2>6 DEF Next, RequestStep
<1>. QED  BY <1>1, <1>2

\* The keys, the caches and the requests stay well typed, for any number of requests
\* at once and whatever the issuer answers.
THEOREM TypesHold == ASSUME PrincipalsAssumption PROVE Spec => []TypeOK
<1>1. Typed /\ OverlapTyped => TypeOK
  <2>. SUFFICES ASSUME Typed, OverlapTyped PROVE TypeOK
    OBVIOUS
  <2>1. ASSUME NEW r \in Requests
        PROVE  /\ req[r].phase \in Phases
               /\ req[r].phase # "idle" => req[r].cred \in Credentials
               /\ req[r].phase \in {"answered", "replaced", "unknown_key"} =>
                     Fetched(r).served \subseteq 1..Fetched(r).issued
    BY DEF Typed, RequestsTyped, Serving, Idle, Phases, AnswerBounded, Fetched
  <2>. QED  BY <2>1 DEF TypeOK, Typed, KeysTyped, OverlapTyped
<1>. QED  BY <1>1, TypedIsInductive, OverlapIsTyped, PTL DEF Spec

-----------------------------------------------------------------------------
\* What is known of a request on its way to the protected operation: the credential
\* was found good before the membership is read, and while the membership is active
\* every request that is served has seen it so.
FoundGood(q) ==
    q.phase \in {"membership", "principal", "acted"} =>
        q.wasLive /\ (q.cred.kind = "jwt" => q.cred.genuine)
Authorised(q) ==
    q.phase \in {"principal", "acted"} =>
        q.wasMember /\ (q.cred.kind = "jwt" => q.cred.scope = "own")
SawMember(q) == q.phase # "idle" /\ member => q.wasMember
OnItsWay(q) == FoundGood(q) /\ Authorised(q) /\ SawMember(q)

AllOnTheirWay == \A r \in Requests : OnItsWay(req[r])

LEMMA StepKeepsWay ==
    ASSUME Typed, AllOnTheirWay, NEW r \in Requests, NEW q \in {Idle} \cup Serving,
           Becomes(r, q), UNCHANGED world, OnItsWay(q)
    PROVE  AllOnTheirWay'
<1>1. req'[r] = q /\ \A s \in Requests \ {r} : req'[s] = req[s]
  BY OthersStay DEF Typed
<1>2. \A s \in Requests : OnItsWay(req'[s])
  BY <1>1 DEF AllOnTheirWay
<1>. QED  BY <1>2 DEF AllOnTheirWay, OnItsWay, FoundGood, Authorised, SawMember, world

\* A move to a phase before the membership, or to an end, needs only the last part.
LEMMA MoveKeepsWay ==
    ASSUME Typed, AllOnTheirWay, NEW r \in Requests, req[r].phase # "idle",
           NEW phase \in Phases \ {"idle", "membership", "principal", "acted"},
           Becomes(r, Moved(req[r], phase)), UNCHANGED world
    PROVE  AllOnTheirWay'
<1>1. req[r] \in Serving
  BY Served DEF Typed
<1>2. /\ Moved(req[r], phase) \in Serving /\ Moved(req[r], phase).phase = phase
      /\ Moved(req[r], phase).wasMember = req[r].wasMember
  BY <1>1, MovedServing
<1>3. OnItsWay(Moved(req[r], phase))
  BY <1>2 DEF AllOnTheirWay, OnItsWay, FoundGood, Authorised, SawMember
<1>. QED  BY <1>2, <1>3, StepKeepsWay

LEMMA RequestsGoTheirWay ==
    ASSUME PrincipalsAssumption, Typed, AllOnTheirWay, NEW r \in Requests, RequestStep(r)
    PROVE  AllOnTheirWay'
<1>. DEFINE was == req[r]
<1>0. WorldTyped /\ KeysTyped /\ OnItsWay(was) /\ (was.phase # "idle" => was \in Serving)
  BY Served DEF Typed, AllOnTheirWay
<1>1. ASSUME NEW cred \in Credentials, Arrive(r, cred) PROVE AllOnTheirWay'
  <2>. DEFINE phase == IF configured /\ cred.kind = "jwt" THEN "lookup" ELSE "session"
  <2>1. phase \in {"lookup", "session"} /\ Becomes(r, Begun(phase, cred)) /\ UNCHANGED world
    BY <1>1 DEF Arrive, Becomes, Begun
  <2>2. /\ Begun(phase, cred) \in Serving /\ Begun(phase, cred).phase = phase
        /\ Begun(phase, cred).wasMember = member
    BY <2>1, <1>0, BegunServing
  <2>3. OnItsWay(Begun(phase, cred))
    BY <2>1, <2>2 DEF OnItsWay, FoundGood, Authorised, SawMember
  <2>. QED  BY <2>1, <2>2, <2>3, StepKeepsWay
<1>2. CASE LookupKey(r)
  <2>1. PICK phase \in {"claims", "fetch"} : Becomes(r, Moved(was, phase))
    BY <1>2, KeyMoves
  <2>. QED  BY <1>2, <2>1, MoveKeepsWay DEF LookupKey, Phases
<1>3. CASE Fetch(r)
  <2>1. Becomes(r, Got(was)) /\ was.phase = "fetch" /\ UNCHANGED world
    BY <1>3, KeyMoves DEF Fetch
  <2>2. Got(was) \in Serving /\ Got(was).phase = "answered" /\ Got(was).wasMember = was.wasMember
    BY <2>1, <1>0, GotServing
  <2>3. OnItsWay(Got(was))
    BY <2>1, <2>2, <1>0 DEF OnItsWay, FoundGood, Authorised, SawMember
  <2>. QED  BY <2>1, <2>2, <2>3, StepKeepsWay
<1>4. CASE FetchFails(r)
  <2>1. Becomes(r, Moved(was, "invalid"))
    BY <1>4, KeyMoves
  <2>. QED  BY <1>4, <2>1, MoveKeepsWay DEF FetchFails, Phases, Ended
<1>5. CASE Replace(r)
  <2>1. Becomes(r, Moved(was, "replaced"))
    BY <1>5, KeyMoves
  <2>. QED  BY <1>5, <2>1, MoveKeepsWay DEF Replace, Phases
<1>6. CASE FinalLookup(r)
  <2>. DEFINE phase == IF was.cred.kid \in cache THEN "claims" ELSE "unknown_key"
  <2>1. Becomes(r, Moved(was, phase))
    BY <1>6, KeyMoves
  <2>2. phase \in Phases \ {"idle", "membership", "principal", "acted"}
    BY DEF Phases, Ended
  <2>. QED  BY <1>6, <2>1, <2>2, MoveKeepsWay DEF FinalLookup
<1>7. CASE ValidateClaims(r) \/ LookupSession(r)
  <2>1. PICK phase \in {"invalid", "membership"}, live \in BOOLEAN :
            /\ Becomes(r, Judged(was, phase, live))
            /\ phase = "membership" => live /\ (was.cred.genuine \/ was.cred.kind # "jwt")
    BY <1>7, StoreMoves
  <2>. DEFINE q == Judged(was, phase, live)
  <2>2. was.phase \in {"claims", "session"} /\ UNCHANGED world
    BY <1>7 DEF ValidateClaims, LookupSession
  <2>3. /\ q \in Serving /\ q.phase = phase /\ (q.wasLive <=> live)
        /\ q.cred = was.cred /\ q.wasMember = was.wasMember
    BY <2>1, <2>2, <1>0, JudgedServing DEF Phases, Ended
  <2>4. OnItsWay(q)
    BY <2>1, <2>2, <2>3, <1>0 DEF OnItsWay, FoundGood, Authorised, SawMember
  <2>. QED  BY <2>1, <2>2, <2>3, <2>4, StepKeepsWay
<1>9. CASE LoadMembership(r)
  <2>1. PICK phase \in {"invalid", "inactive", "principal"} :
            /\ Becomes(r, Moved(was, phase))
            /\ phase = "principal" =>
                  member /\ ~(was.cred.kind = "jwt" /\ was.cred.scope = "foreign")
    BY <1>9, StoreMoves
  <2>. DEFINE q == Moved(was, phase)
  <2>2. was.phase = "membership" /\ UNCHANGED world
    BY <1>9 DEF LoadMembership
  <2>3. /\ q \in Serving /\ q.phase = phase /\ q.wasLive = was.wasLive
        /\ q.cred = was.cred /\ q.wasMember = was.wasMember /\ was \in Serving
    BY <2>1, <2>2, <1>0, MovedServing DEF Phases, Ended
  <2>4. was.cred.kind = "jwt" => was.cred.scope \in {"own", "foreign"}
    BY <2>3 DEF Serving, Credentials, Tokens
  <2>5. OnItsWay(q)
    BY <2>1, <2>2, <2>3, <2>4, <1>0 DEF OnItsWay, FoundGood, Authorised, SawMember
  <2>. QED  BY <2>1, <2>2, <2>3, <2>5, StepKeepsWay
<1>10. CASE Act(r)
  <2>. DEFINE q == Moved(was, "acted")
  <2>1. Becomes(r, q) /\ was.phase = "principal" /\ UNCHANGED world
    BY <1>10, StoreMoves DEF Act
  <2>2. /\ q \in Serving /\ q.phase = "acted" /\ q.wasLive = was.wasLive
        /\ q.cred = was.cred /\ q.wasMember = was.wasMember
    BY <2>1, <1>0, MovedServing DEF Phases, Ended
  <2>3. OnItsWay(q)
    BY <2>1, <2>2, <1>0 DEF OnItsWay, FoundGood, Authorised, SawMember
  <2>. QED  BY <2>1, <2>2, <2>3, StepKeepsWay
<1>11. CASE Answer(r)
  <2>1. Becomes(r, Idle) /\ UNCHANGED world
    BY <1>11, StoreMoves DEF Answer
  <2>2. OnItsWay(Idle)
    BY DEF OnItsWay, FoundGood, Authorised, SawMember, Idle
  <2>. QED  BY <2>1, <2>2, StepKeepsWay
<1>. QED  BY <1>1, <1>2, <1>3, <1>4, <1>5, <1>6, <1>7, <1>9, <1>10, <1>11
          DEF RequestStep, KeyStep, StoreStep

\* A membership that comes back is seen by every request that is served; one that goes
\* leaves what they saw.
LEMMA OutsideKeepsWay ==
    ASSUME Typed, AllOnTheirWay, Outside
    PROVE  AllOnTheirWay'
<1>1. CASE Rotate \/ Withdraw \/ Revoke \/ Tick
  <2>1. req' = req /\ member' = member
    BY <1>1 DEF Rotate, Withdraw, Revoke, Tick
  <2>. QED  BY <2>1 DEF AllOnTheirWay, OnItsWay, FoundGood, Authorised, SawMember
<1>2. CASE Restart
  <2>1. \A r \in Requests : req'[r] = Idle
    BY <1>2 DEF Restart
  <2>. QED  BY <2>1 DEF AllOnTheirWay, OnItsWay, FoundGood, Authorised, SawMember, Idle
<1>3. ASSUME NEW active \in BOOLEAN, SetMember(active) PROVE AllOnTheirWay'
  <2>1. ASSUME NEW r \in Requests PROVE OnItsWay(req[r])'
    <3>0. OnItsWay(req[r]) /\ (req[r].phase # "idle" => req[r] \in Serving) /\ member' = active
      BY <1>3, Served DEF AllOnTheirWay, Typed, SetMember
    <3>1. CASE active /\ req[r].phase # "idle"
      <4>1. req'[r] = Admitted(req[r])
        BY <1>3, <3>1 DEF SetMember, Admitted
      <4>2. /\ req'[r].phase = req[r].phase /\ req'[r].cred = req[r].cred
            /\ req'[r].wasMember /\ req'[r].wasLive = req[r].wasLive
        BY <4>1, <3>0, <3>1, AdmittedServing
      <4>. QED  BY <4>2, <3>0 DEF OnItsWay, FoundGood, Authorised, SawMember
    <3>2. CASE ~(active /\ req[r].phase # "idle")
      <4>1. req'[r] = req[r]
        BY <1>3, <3>2 DEF SetMember
      <4>. QED  BY <4>1, <3>0, <3>2 DEF OnItsWay, FoundGood, Authorised, SawMember
    <3>. QED  BY <3>1, <3>2
  <2>. QED  BY <2>1 DEF AllOnTheirWay
<1>. QED  BY <1>1, <1>2, <1>3 DEF Outside

\* However many requests are resolved at once, and whatever the issuer, the memberships,
\* the session and the clock do meanwhile: whoever acts showed a credential that was
\* genuine, of its own scope and not expired when it was verified, and was a member at
\* some time since the request arrived.
THEOREM MembersAct == ASSUME PrincipalsAssumption PROVE Spec => []ActsUnderMembership
<1>. DEFINE IInv == Typed /\ AllOnTheirWay
<1>1. Init => IInv
  <2>1. Init => \A r \in Requests : req[r] = Idle
    BY DEF Init
  <2>. QED  BY <2>1, TypedIsInductive DEF AllOnTheirWay, OnItsWay, FoundGood, Authorised, SawMember, Idle
<1>2. IInv /\ [Next]_vars => IInv'
  <2>. SUFFICES ASSUME IInv, [Next]_vars PROVE IInv'
    OBVIOUS
  <2>0. Typed'
    BY TypedIsInductive
  <2>1. CASE UNCHANGED vars
    BY <2>0, <2>1 DEF vars, AllOnTheirWay, OnItsWay, FoundGood, Authorised, SawMember
  <2>2. CASE Outside
    BY <2>0, <2>2, OutsideKeepsWay
  <2>3. ASSUME NEW r \in Requests, RequestStep(r) PROVE IInv'
    BY <2>0, <2>3, RequestsGoTheirWay
  <2>. QED  BY <2>1, <2>2, <2>3 DEF Next, RequestStep
<1>3. IInv => ActsUnderMembership
  BY DEF AllOnTheirWay, OnItsWay, FoundGood, Authorised, ActsUnderMembership
<1>. QED  BY <1>1, <1>2, <1>3, PTL DEF Spec

-----------------------------------------------------------------------------
\* What the issuer no longer serves it never serves again.  An answer names every key
\* of its time that is still served.  Unless another refresh overtook it, it names none
\* that was dropped before, and the cache is the answer that was read last.
AnswerIsSound(q, behind) ==
    /\ q.phase = "answered" => /\ served \cap (1..q.got.issued) \subseteq q.got.served
                               /\ behind \/ q.got.served \cap dropped = {}
    /\ q.phase = "replaced" => behind \/ cache = q.got.served
    /\ q.phase = "unknown_key" => behind \/ q.cred.kid \notin q.got.served

CacheFollows ==
    /\ served \cap dropped = {} /\ (late \/ cache \cap dropped = {})
    /\ \A r \in Requests : AnswerIsSound(req[r], r \in overtaken)

\* A step of one request that leaves the keys where they are.
LEMMA StepKeepsCache ==
    ASSUME Typed, CacheFollows, NEW r \in Requests, NEW q \in {Idle} \cup Serving,
           Becomes(r, q), UNCHANGED <<world, cache, dropped, late>>,
           overtaken' \in {overtaken, overtaken \ {r}}, AnswerIsSound(q, r \in overtaken')
    PROVE  CacheFollows'
<1>1. req'[r] = q /\ \A s \in Requests \ {r} : req'[s] = req[s]
  BY OthersStay DEF Typed
<1>2. served' = served /\ cache' = cache /\ dropped' = dropped /\ late' = late
  BY DEF world
<1>3. ASSUME NEW s \in Requests PROVE AnswerIsSound(req[s], s \in overtaken)'
  <2>1. CASE s = r
    BY <1>1, <1>2, <2>1 DEF AnswerIsSound
  <2>2. CASE s # r
    <3>1. AnswerIsSound(req[s], s \in overtaken) /\ (s \in overtaken => s \in overtaken')
      BY <2>2 DEF CacheFollows
    <3>. QED  BY <1>1, <1>2, <2>2, <3>1 DEF AnswerIsSound
  <2>. QED  BY <2>1, <2>2
<1>. QED  BY <1>2, <1>3 DEF CacheFollows

LEMMA RequestKeepsCache ==
    ASSUME PrincipalsAssumption, Typed, CacheFollows, NEW r \in Requests, RequestStep(r)
    PROVE  CacheFollows'
<1>. DEFINE was == req[r]
<1>0. /\ KeysTyped /\ WorldTyped /\ AnswerIsSound(was, r \in overtaken) /\ AnswerBounded(was)
      /\ was.phase # "idle" => was \in Serving
  BY Served DEF Typed, CacheFollows
\* A move to a phase without an answer.
<1>1. ASSUME NEW q \in {Idle} \cup Serving, Becomes(r, q), UNCHANGED <<world, cache, dropped, overlap>>,
             q.phase \notin {"answered", "replaced", "unknown_key"}
      PROVE  CacheFollows'
  BY <1>1, StepKeepsCache DEF AnswerIsSound, overlap
<1>2. ASSUME was.phase # "idle", NEW phase \in Phases \ {"idle", "answered", "replaced", "unknown_key"},
             Becomes(r, Moved(was, phase)), UNCHANGED <<world, cache, dropped, overlap>>
      PROVE  CacheFollows'
  <2>1. Moved(was, phase) \in Serving /\ Moved(was, phase).phase = phase
    BY <1>0, <1>2, MovedServing
  <2>. QED  BY <2>1, <1>1, <1>2
<1>3. ASSUME NEW cred \in Credentials, Arrive(r, cred) PROVE CacheFollows'
  <2>. DEFINE phase == IF configured /\ cred.kind = "jwt" THEN "lookup" ELSE "session"
  <2>1. /\ phase \in {"lookup", "session"} /\ Becomes(r, Begun(phase, cred))
        /\ UNCHANGED <<world, cache, dropped, overlap>>
    BY <1>3 DEF Arrive, Becomes, Begun
  <2>2. Begun(phase, cred) \in Serving /\ Begun(phase, cred).phase = phase
    BY <2>1, <1>0, BegunServing
  <2>. QED  BY <2>1, <2>2, <1>1
<1>4. CASE LookupKey(r)
  <2>1. PICK phase \in {"claims", "fetch"} : Becomes(r, Moved(was, phase))
    BY <1>4, KeyMoves
  <2>. QED  BY <1>4, <2>1, <1>2 DEF LookupKey, Phases
<1>5. CASE Fetch(r)
  <2>1. /\ Becomes(r, Got(was)) /\ was.phase = "fetch" /\ UNCHANGED <<world, cache, dropped, late>>
        /\ overtaken' = overtaken \ {r}
    BY <1>5, KeyMoves DEF Fetch
  <2>2. /\ Got(was) \in Serving /\ Got(was).phase = "answered"
        /\ Got(was).got.served = served /\ Got(was).got.issued = issued
    BY <2>1, <1>0, GotServing
  <2>3. AnswerIsSound(Got(was), r \in overtaken')
    BY <2>2 DEF AnswerIsSound, CacheFollows
  <2>. QED  BY <2>1, <2>2, <2>3, StepKeepsCache
<1>6. CASE FetchFails(r)
  <2>1. Becomes(r, Moved(was, "invalid"))
    BY <1>6, KeyMoves
  <2>. QED  BY <1>6, <2>1, <1>2 DEF FetchFails, Phases, Ended
\* What the answer no longer lists is dropped: none of it is served any more.  The
\* other answers that wait are overtaken now.
<1>7. CASE Replace(r)
  <2>. DEFINE q == Moved(was, "replaced")
  <2>1. /\ Becomes(r, q) /\ was.phase = "answered" /\ UNCHANGED world
        /\ cache' = was.got.served /\ dropped' = dropped \cup (1..was.got.issued \ was.got.served)
        /\ late' = (r \in overtaken)
        /\ overtaken' = (overtaken \ {r}) \cup
                  {s \in Requests \ {r} : req[s].phase \in {"answered", "replaced"}}
    BY <1>7, KeyMoves DEF Replace, Drop, Fetched, Overtake
  <2>2. q \in Serving /\ q.phase = "replaced" /\ q.got = was.got
    BY <2>1, <1>0, MovedServing DEF Phases
  <2>3. req'[r] = q /\ \A s \in Requests \ {r} : req'[s] = req[s]
    BY <2>1, <2>2, OthersStay DEF Typed
  <2>4. served' = served
    BY <2>1 DEF world
  <2>5. served \cap dropped' = {}
    BY <2>1, <1>0 DEF AnswerIsSound, CacheFollows
  <2>6. late' \/ cache' \cap dropped' = {}
    BY <2>1, <1>0 DEF AnswerIsSound
  <2>7. ASSUME NEW s \in Requests PROVE AnswerIsSound(req[s], s \in overtaken)'
    <3>1. CASE s = r
      BY <2>1, <2>2, <2>3, <3>1 DEF AnswerIsSound
    <3>2. CASE s # r
      <4>1. AnswerIsSound(req[s], s \in overtaken)
        BY DEF CacheFollows
      <4>2. /\ req[s].phase \in {"answered", "replaced"} => s \in overtaken'
            /\ s \in overtaken => s \in overtaken'
        BY <2>1, <3>2
      <4>. QED  BY <2>3, <2>4, <3>2, <4>1, <4>2 DEF AnswerIsSound
    <3>. QED  BY <3>1, <3>2
  <2>. QED  BY <2>4, <2>5, <2>6, <2>7 DEF CacheFollows
<1>8. CASE FinalLookup(r)
  <2>. DEFINE phase == IF was.cred.kid \in cache THEN "claims" ELSE "unknown_key"
              q == Moved(was, phase)
  <2>1. Becomes(r, q) /\ was.phase = "replaced" /\ UNCHANGED <<world, cache, dropped, overlap>>
    BY <1>8, KeyMoves DEF FinalLookup
  <2>2. q \in Serving /\ q.phase = phase /\ q.got = was.got /\ q.cred = was.cred
    BY <2>1, <1>0, MovedServing DEF Phases, Ended
  <2>3. AnswerIsSound(q, r \in overtaken')
    BY <2>1, <2>2, <1>0 DEF AnswerIsSound, overlap
  <2>. QED  BY <2>1, <2>2, <2>3, StepKeepsCache DEF overlap
<1>9. CASE ValidateClaims(r) \/ LookupSession(r)
  <2>1. PICK phase \in {"invalid", "membership"}, live \in BOOLEAN : Becomes(r, Judged(was, phase, live))
    BY <1>9, StoreMoves
  <2>2. was.phase \in {"claims", "session"} /\ UNCHANGED <<world, cache, dropped, overlap>>
    BY <1>9 DEF ValidateClaims, LookupSession
  <2>3. Judged(was, phase, live) \in Serving /\ Judged(was, phase, live).phase = phase
    BY <2>1, <2>2, <1>0, JudgedServing DEF Phases, Ended
  <2>. QED  BY <2>1, <2>2, <2>3, <1>1
<1>10. CASE LoadMembership(r)
  <2>1. PICK phase \in {"invalid", "inactive", "principal"} : Becomes(r, Moved(was, phase))
    BY <1>10, StoreMoves
  <2>. QED  BY <1>10, <2>1, <1>2 DEF LoadMembership, Phases, Ended
<1>11. CASE Act(r)
  <2>1. Becomes(r, Moved(was, "acted"))
    BY <1>11, StoreMoves
  <2>. QED  BY <1>11, <2>1, <1>2 DEF Act, Phases, Ended
<1>12. CASE Answer(r)
  <2>1. Becomes(r, Idle) /\ UNCHANGED <<world, cache, dropped, overlap>>
    BY <1>12, StoreMoves DEF Answer
  <2>. QED  BY <2>1, <1>1 DEF Idle
<1>. QED  BY <1>3, <1>4, <1>5, <1>6, <1>7, <1>8, <1>9, <1>10, <1>11, <1>12
          DEF RequestStep, KeyStep, StoreStep

LEMMA OutsideKeepsCache ==
    ASSUME Typed, CacheFollows, Outside
    PROVE  CacheFollows'
\* The new key is younger than every answer.
<1>1. CASE Rotate
  <2>1. /\ issued' = issued + 1 /\ served' = served \cup {issued + 1}
        /\ req' = req /\ UNCHANGED <<cache, dropped, overtaken, late>>
    BY <1>1 DEF Rotate, overlap
  <2>2. issued \in Nat /\ dropped \subseteq 1..issued
    BY DEF Typed, KeysTyped
  <2>3. ASSUME NEW r \in Requests PROVE AnswerIsSound(req[r], r \in overtaken)'
    <3>1. req[r].phase = "answered" => req[r].got.issued \in Nat /\ req[r].got.issued <= issued
      BY Served DEF Typed, AnswerBounded, Serving
    <3>2. req[r].phase = "answered" => issued + 1 \notin 1..req[r].got.issued
      BY <3>1, <2>2
    <3>. QED  BY <2>1, <3>2 DEF CacheFollows, AnswerIsSound
  <2>4. (served \cap dropped = {})'
    BY <2>1, <2>2 DEF CacheFollows
  <2>. QED  BY <2>1, <2>3, <2>4 DEF CacheFollows
<1>2. CASE Withdraw
  <2>1. served' \subseteq served /\ req' = req /\ UNCHANGED <<cache, dropped, overtaken, late>>
    BY <1>2 DEF Withdraw, overlap
  <2>. QED  BY <2>1 DEF CacheFollows, AnswerIsSound
<1>3. CASE Revoke \/ Tick
  <2>1. UNCHANGED <<served, cache, dropped, overtaken, late, req>>
    BY <1>3 DEF Revoke, Tick, overlap
  <2>. QED  BY <2>1 DEF CacheFollows, AnswerIsSound
<1>4. CASE Restart
  <2>1. UNCHANGED <<served, dropped>> /\ cache' = {} /\ \A r \in Requests : req'[r] = Idle
    BY <1>4 DEF Restart
  <2>. QED  BY <2>1 DEF CacheFollows, AnswerIsSound, Idle
<1>5. ASSUME NEW active \in BOOLEAN, SetMember(active) PROVE CacheFollows'
  <2>1. UNCHANGED <<served, cache, dropped, overtaken, late>>
    BY <1>5 DEF SetMember, overlap
  <2>2. ASSUME NEW r \in Requests PROVE AnswerIsSound(req[r], r \in overtaken)'
    <3>1. CASE active /\ req[r].phase # "idle"
      <4>1. req'[r] = Admitted(req[r]) /\ req[r] \in Serving
        BY <1>5, <3>1, Served DEF SetMember, Admitted, Typed
      <4>2. req'[r].phase = req[r].phase /\ req'[r].cred = req[r].cred /\ req'[r].got = req[r].got
        BY <4>1, AdmittedServing
      <4>. QED  BY <4>2, <2>1 DEF CacheFollows, AnswerIsSound
    <3>2. CASE ~(active /\ req[r].phase # "idle")
      <4>1. req'[r] = req[r]
        BY <1>5, <3>2 DEF SetMember
      <4>. QED  BY <4>1, <2>1 DEF CacheFollows, AnswerIsSound
    <3>. QED  BY <3>1, <3>2
  <2>. QED  BY <2>1, <2>2 DEF CacheFollows
<1>. QED  BY <1>1, <1>2, <1>3, <1>4, <1>5 DEF Outside

\* The cache follows the issuer, for any number of requests that refresh it at once,
\* however often keys rotate, fetches fail and the process restarts: only an answer that
\* another refresh overtook brings a withdrawn key back, until the next that was not, and
\* only a request between whose refresh and lookup another one came is refused for a key
\* of its own document (internal/auth/oidc_jwks.go:44-121).
THEOREM CacheFollowsIssuer ==
    ASSUME PrincipalsAssumption PROVE Spec => []KeyCacheFollowsIssuer
<1>. DEFINE IInv == Typed /\ CacheFollows
<1>1. Init => IInv
  <2>1. Init => \A r \in Requests : req[r] = Idle
    BY DEF Init
  <2>. QED  BY <2>1, TypedIsInductive DEF Init, CacheFollows, AnswerIsSound, Idle
<1>2. IInv /\ [Next]_vars => IInv'
  <2>. SUFFICES ASSUME IInv, [Next]_vars PROVE IInv'
    OBVIOUS
  <2>0. Typed'
    BY TypedIsInductive
  <2>1. CASE UNCHANGED vars
    BY <2>0, <2>1 DEF vars, CacheFollows, AnswerIsSound, overlap
  <2>2. CASE Outside
    BY <2>0, <2>2, OutsideKeepsCache
  <2>3. ASSUME NEW r \in Requests, RequestStep(r) PROVE IInv'
    BY <2>0, <2>3, RequestKeepsCache
  <2>. QED  BY <2>1, <2>2, <2>3 DEF Next, RequestStep
<1>3. IInv => KeyCacheFollowsIssuer
  BY DEF CacheFollows, AnswerIsSound, KeyCacheFollowsIssuer, RotatedOutKeyStaysOut, CurrentKeyAccepted, Fetched
<1>. QED  BY <1>1, <1>2, <1>3, PTL DEF Spec

-----------------------------------------------------------------------------
(* Migrations: one process upgrades *)

Slot == [phase : Upgrade!Phases, at : 0..Upgrade!Latest, lost : BOOLEAN]

\* What the store on disk is while one process upgrades it: every step up to its
\* version, and what something else created for the steps still to come.
UpgradedDisk ==
    /\ version \in 0..Upgrade!Latest
    /\ foreign \subseteq Upgrade!Creating /\ \A v \in foreign : v > version
    /\ objects = (1..version) \cup foreign
    /\ guard \in Upgrade!Guarding \cup {0} /\ row \in {"migrated", "voided"}

\* A process that walks the chain alone remembers the version on disk.
Remembers(q) ==
    /\ q.phase \in {"chain", "snapshot", "serving"} => q.at = version
    /\ q.phase = "serving" => q.at = Upgrade!Latest

UpgradeHolds ==
    /\ UpgradedDisk /\ opens \in 0..MaxOpens
    /\ proc \in [{Upgrader} -> Slot] /\ Remembers(proc[Upgrader])

\* A process that goes to a phase at a version.
Walked(q, phase, at) == [q EXCEPT !.phase = phase, !.at = at]

LEMMA SlotMoves ==
    ASSUME NEW q \in Slot, NEW phase \in Upgrade!Phases, NEW at \in 0..Upgrade!Latest
    PROVE  /\ Walked(q, phase, at) \in Slot
           /\ Walked(q, phase, at).phase = phase /\ Walked(q, phase, at).at = at
  BY DEF Slot, Walked

LEMMA ChainPhase == "chain" \in Upgrade!Phases
  BY DEF Upgrade!Phases

LEMMA GuardIsOneOfThem ==
    ASSUME NEW v \in 0..Upgrade!Latest
    PROVE  Upgrade!LatestGuard(v) \in Upgrade!Guarding \cup {0}
<1>1. ASSUME NEW g \in Upgrade!Guarding \cup {0}, g <= v,
             \A h \in Upgrade!Guarding : h <= v => h <= g
      PROVE  Upgrade!LatestGuard(v) \in Upgrade!Guarding \cup {0}
  BY <1>1 DEF Upgrade!LatestGuard
<1>2. CASE v < 2
  BY <1>1, <1>2, 0 <= v DEF Upgrade!Guarding, Upgrade!Latest
<1>3. CASE 2 <= v /\ v < 3
  BY <1>1, <1>3 DEF Upgrade!Guarding, Upgrade!Latest
<1>4. CASE 3 <= v /\ v < 6
  BY <1>1, <1>4 DEF Upgrade!Guarding, Upgrade!Latest
<1>5. CASE 6 <= v /\ v < 7
  BY <1>1, <1>5 DEF Upgrade!Guarding, Upgrade!Latest
<1>6. CASE 7 <= v /\ v < 16
  BY <1>1, <1>6 DEF Upgrade!Guarding, Upgrade!Latest
<1>7. CASE 16 <= v
  BY <1>1, <1>7 DEF Upgrade!Guarding, Upgrade!Latest
<1>. QED  BY <1>2, <1>3, <1>4, <1>5, <1>6, <1>7 DEF Upgrade!Latest

LEMMA UpgradeStarts ==
    ASSUME Upgrade!MigrationsAssumption, Upgrade!Init PROVE UpgradeHolds
<1>1. OldVersion \in 0..Upgrade!Latest /\ Foreign \subseteq Upgrade!Creating /\ MaxOpens \in Nat
  BY DEF Upgrade!MigrationsAssumption
<1>2. /\ version = OldVersion /\ row = "migrated" /\ foreign \subseteq Foreign
      /\ \A v \in foreign : v > OldVersion
      /\ objects = (1..OldVersion) \cup foreign
      /\ guard = Upgrade!LatestGuard(OldVersion) /\ opens = 0
      /\ proc = [p \in {Upgrader} |-> Upgrade!Closed]
  BY DEF Upgrade!Init
<1>3. UpgradedDisk
  BY <1>1, <1>2, GuardIsOneOfThem DEF UpgradedDisk
<1>4. Upgrade!Closed \in Slot
  BY DEF Upgrade!Closed, Slot, Upgrade!Phases, Upgrade!Latest
<1>5. proc \in [{Upgrader} -> Slot] /\ proc[Upgrader] = Upgrade!Closed
  BY <1>2, <1>4
<1>. QED  BY <1>1, <1>2, <1>3, <1>5 DEF UpgradeHolds, Remembers, Upgrade!Closed

\* A step that leaves the store alone.
LEMMA UpgraderMoves ==
    ASSUME UpgradeHolds, NEW q \in Slot, proc' = [proc EXCEPT ![Upgrader] = q],
           UNCHANGED <<version, objects, foreign, guard, row>>, opens' \in 0..MaxOpens, Remembers(q)
    PROVE  UpgradeHolds'
<1>1. proc' \in [{Upgrader} -> Slot] /\ proc'[Upgrader] = q
  BY DEF UpgradeHolds
<1>2. UpgradedDisk'
  BY DEF UpgradeHolds, UpgradedDisk
<1>3. Remembers(q)'
  BY DEF Remembers
<1>. QED  BY <1>1, <1>2, <1>3 DEF UpgradeHolds, Remembers

\* A step of the chain that commits.
LEMMA UpgraderCommits ==
    ASSUME UpgradeHolds, Upgrade!Ready(Upgrader), Upgrade!Commit(Upgrader),
           Upgrade!Target(Upgrader) \in 2..Upgrade!Latest, ~Upgrade!Conflict(Upgrader),
           foreign' = foreign, opens' = opens,
           guard' \in Upgrade!Guarding \cup {0}, row' \in {"migrated", "voided"}
    PROVE  UpgradeHolds'
<1>. DEFINE q == proc[Upgrader]
<1>1. q \in Slot /\ q.phase \in {"chain", "snapshot"}
  BY DEF UpgradeHolds, Upgrade!Ready
<1>2. Upgrade!Target(Upgrader) = version + 1 /\ version \in 0..Upgrade!Latest
  BY <1>1 DEF UpgradeHolds, UpgradedDisk, Remembers, Upgrade!Target
<1>3. version + 1 \notin foreign
  BY <1>2 DEF UpgradeHolds, UpgradedDisk, Upgrade!Conflict
<1>4. version' = version + 1 /\ objects' = objects \cup {version + 1}
  BY <1>2 DEF Upgrade!Commit
<1>5. UpgradedDisk'
  <2>1. version' \in 0..Upgrade!Latest
    BY <1>2, <1>4 DEF Upgrade!Latest
  <2>2. foreign \subseteq Upgrade!Creating /\ \A v \in foreign : v > version + 1
    <3>1. SUFFICES ASSUME NEW v \in foreign PROVE v > version + 1 /\ v \in Upgrade!Creating
      OBVIOUS
    <3>2. v \in Upgrade!Creating /\ v > version /\ v # version + 1
      BY <1>3, <3>1 DEF UpgradeHolds, UpgradedDisk
    <3>. QED  BY <3>2, <1>2 DEF Upgrade!Creating, Upgrade!Base, Upgrade!Latest
  <2>3. objects' = (1..(version + 1)) \cup foreign
    BY <1>2, <1>4 DEF UpgradeHolds, UpgradedDisk, Upgrade!Latest
  <2>. QED  BY <1>4, <2>1, <2>2, <2>3 DEF UpgradedDisk
<1>6. proc' = [p \in {Upgrader} |-> Walked(q, "chain", version + 1)]
  BY <1>2 DEF Upgrade!Commit, Upgrade!Committed, Walked
<1>7. /\ Walked(q, "chain", version + 1) \in Slot
      /\ Walked(q, "chain", version + 1).phase = "chain"
      /\ Walked(q, "chain", version + 1).at = version + 1
  <2>1. version + 1 \in 0..Upgrade!Latest
    BY <1>2 DEF Upgrade!Latest
  <2>. QED  BY <1>1, <2>1, ChainPhase, SlotMoves
<1>8. proc' \in [{Upgrader} -> Slot] /\ proc'[Upgrader].at = version' /\ proc'[Upgrader].phase = "chain"
  BY <1>4, <1>6, <1>7
<1>9. Remembers(proc[Upgrader])'
  BY <1>8 DEF Remembers
<1>. QED  BY <1>5, <1>8, <1>9 DEF UpgradeHolds

LEMMA UpgradeGoesOn ==
    ASSUME Upgrade!MigrationsAssumption, UpgradeHolds, [Upgrade!Next]_(Upgrade!vars)
    PROVE  UpgradeHolds'
<1>. DEFINE q == proc[Upgrader]
<1>0. /\ q \in Slot /\ Remembers(q) /\ UpgradedDisk /\ opens \in 0..MaxOpens /\ MaxOpens \in Nat
      /\ proc \in [{Upgrader} -> Slot]
  BY DEF UpgradeHolds, Upgrade!MigrationsAssumption
<1>1. CASE UNCHANGED Upgrade!vars
  BY <1>1 DEF Upgrade!vars, UpgradeHolds, UpgradedDisk, Remembers
<1>2. CASE Upgrade!Open(Upgrader)
  <2>1. /\ opens' = opens + 1 /\ opens < MaxOpens /\ UNCHANGED <<foreign, row>>
        /\ proc' = [proc EXCEPT ![Upgrader] = [q EXCEPT !.phase = "opened"]]
    BY <1>0, <1>2 DEF Upgrade!Open, Upgrade!Goes
  <2>2. [q EXCEPT !.phase = "opened"] \in Slot /\ opens' \in 0..MaxOpens
    BY <1>0, <2>1 DEF Slot, Upgrade!Phases
  <2>3. CASE version # 0
    <3>1. UNCHANGED <<version, objects, guard>>
      BY <1>2, <2>3 DEF Upgrade!Open
    <3>2. Remembers([q EXCEPT !.phase = "opened"])
      BY <1>0 DEF Remembers, Slot
    <3>. QED  BY <2>1, <2>2, <3>1, <3>2, UpgraderMoves
  <2>4. CASE version = 0
    <3>1. version' = 2 /\ objects' = objects \cup 1..2 /\ guard' = 2
      BY <1>2, <2>4 DEF Upgrade!Open, Upgrade!Base
    <3>2. UpgradedDisk'
      BY <1>0, <2>1, <2>4, <3>1 DEF UpgradedDisk, Upgrade!Latest, Upgrade!Creating, Upgrade!Base,
         Upgrade!Rerunning, Upgrade!Guarding
    <3>3. proc' \in [{Upgrader} -> Slot] /\ proc'[Upgrader].phase = "opened"
      BY <1>0, <2>1, <2>2 DEF Slot
    <3>4. Remembers(proc[Upgrader])'
      BY <3>3 DEF Remembers
    <3>. QED  BY <2>2, <3>2, <3>3, <3>4 DEF UpgradeHolds
  <2>. QED  BY <2>3, <2>4
\* Moves of the process alone.
<1>3. ASSUME NEW r \in Slot, proc' = [proc EXCEPT ![Upgrader] = r], Remembers(r),
             UNCHANGED <<version, objects, foreign, guard, row, opens>>
      PROVE  UpgradeHolds'
  <2>1. opens' \in 0..MaxOpens
    BY <1>0, <1>3
  <2>. QED  BY <1>3, <2>1, UpgraderMoves
<1>4. CASE Upgrade!ReadVersion(Upgrader)
  <2>1. proc' = [proc EXCEPT ![Upgrader] = Walked(q, "chain", version)]
    BY <1>0, <1>4 DEF Upgrade!ReadVersion, Walked
  <2>2. /\ Walked(q, "chain", version) \in Slot
        /\ Walked(q, "chain", version).phase = "chain" /\ Walked(q, "chain", version).at = version
    BY <1>0, ChainPhase, SlotMoves DEF UpgradedDisk
  <2>3. Remembers(Walked(q, "chain", version))
    BY <2>2 DEF Remembers
  <2>. QED  BY <1>3, <1>4, <2>1, <2>2, <2>3 DEF Upgrade!ReadVersion, Upgrade!store
<1>5. CASE Upgrade!TakeSnapshot(Upgrader)
  <2>1. /\ q.phase = "chain"
        /\ proc' = [proc EXCEPT ![Upgrader] = [q EXCEPT !.phase = "snapshot", !.lost = FALSE]]
    BY <1>0, <1>5 DEF Upgrade!TakeSnapshot
  <2>2. [q EXCEPT !.phase = "snapshot", !.lost = FALSE] \in Slot
    BY <1>0 DEF Slot, Upgrade!Phases
  <2>3. Remembers([q EXCEPT !.phase = "snapshot", !.lost = FALSE])
    BY <1>0, <2>1 DEF Remembers, Slot
  <2>. QED  BY <1>3, <1>5, <2>1, <2>2, <2>3 DEF Upgrade!TakeSnapshot, Upgrade!store
<1>6. CASE Upgrade!FailStep(Upgrader)
  <2>1. proc' = [proc EXCEPT ![Upgrader] = [q EXCEPT !.phase = "failed"]]
    BY <1>0, <1>6 DEF Upgrade!FailStep, Upgrade!Goes
  <2>2. [q EXCEPT !.phase = "failed"] \in Slot /\ Remembers([q EXCEPT !.phase = "failed"])
    BY <1>0 DEF Slot, Upgrade!Phases, Remembers
  <2>. QED  BY <1>3, <1>6, <2>1, <2>2 DEF Upgrade!FailStep, Upgrade!store
<1>7. CASE Upgrade!Serve(Upgrader)
  <2>1. /\ proc' = [proc EXCEPT ![Upgrader] = [q EXCEPT !.phase = "serving"]]
        /\ q.phase = "chain" /\ q.at = Upgrade!Latest
    BY <1>0, <1>7 DEF Upgrade!Serve, Upgrade!Goes
  <2>2. [q EXCEPT !.phase = "serving"] \in Slot /\ Remembers([q EXCEPT !.phase = "serving"])
    BY <1>0, <2>1 DEF Slot, Upgrade!Phases, Remembers
  <2>. QED  BY <1>3, <1>7, <2>1, <2>2 DEF Upgrade!Serve, Upgrade!store
<1>8. CASE Upgrade!Close(Upgrader)
  <2>1. proc' = [proc EXCEPT ![Upgrader] = Upgrade!Closed]
    BY <1>8 DEF Upgrade!Close
  <2>2. Upgrade!Closed \in Slot /\ Remembers(Upgrade!Closed)
    BY DEF Slot, Upgrade!Phases, Upgrade!Latest, Upgrade!Closed, Remembers
  <2>. QED  BY <1>3, <1>8, <2>1, <2>2 DEF Upgrade!Close, Upgrade!store
<1>9. CASE Upgrade!Void(Upgrader)
  <2>1. /\ UNCHANGED <<version, objects, foreign, guard, proc, opens>> /\ row' = "voided"
    BY <1>9 DEF Upgrade!Void
  <2>. QED  BY <1>0, <2>1 DEF UpgradeHolds, UpgradedDisk, Remembers
<1>10. CASE Upgrade!StepChain(Upgrader)
  <2>1. ASSUME NEW T \in SUBSET (2..Upgrade!Latest), Upgrade!MayStep(Upgrader, T), Upgrade!Commit(Upgrader),
               UNCHANGED <<foreign, opens>>, guard' \in Upgrade!Guarding \cup {0},
               row' \in {"migrated", "voided"}
        PROVE  UpgradeHolds'
    BY <2>1, UpgraderCommits DEF Upgrade!MayStep
  <2>2. guard \in Upgrade!Guarding \cup {0} /\ row \in {"migrated", "voided"}
    BY <1>0 DEF UpgradedDisk
  <2>3. {2} \in SUBSET (2..Upgrade!Latest) /\ {16} \in SUBSET (2..Upgrade!Latest)
        /\ {17} \in SUBSET (2..Upgrade!Latest) /\ Upgrade!Creating \in SUBSET (2..Upgrade!Latest)
    BY DEF Upgrade!Latest, Upgrade!Creating, Upgrade!Base
  <2>4. CASE Upgrade!Backfill(Upgrader)
    <3>1. guard' \in Upgrade!Guarding /\ row' = "migrated"
      BY <2>4 DEF Upgrade!Backfill, Upgrade!Guarding
    <3>. QED  BY <2>1, <2>3, <2>4, <3>1 DEF Upgrade!Backfill
  <2>5. CASE Upgrade!Extend(Upgrader)
    <3>1. guard' \in Upgrade!Guarding \cup {0} /\ row' = row
      BY <2>2, <2>5 DEF Upgrade!Extend
    <3>. QED  BY <2>1, <2>2, <2>3, <2>5, <3>1 DEF Upgrade!Extend
  <2>6. CASE Upgrade!RefineGuard(Upgrader)
    <3>1. guard' \in Upgrade!Guarding \cup {0} /\ row' = row
      BY <2>6 DEF Upgrade!RefineGuard, Upgrade!Guarding
    <3>. QED  BY <2>1, <2>2, <2>3, <2>6, <3>1 DEF Upgrade!RefineGuard
  <2>7. CASE Upgrade!RequireConfidence(Upgrader)
    BY <2>1, <2>2, <2>3, <2>7 DEF Upgrade!RequireConfidence
  <2>. QED  BY <1>10, <2>4, <2>5, <2>6, <2>7 DEF Upgrade!StepChain
<1>. QED  BY <1>1, <1>2, <1>4, <1>5, <1>6, <1>7, <1>8, <1>9, <1>10 DEF Upgrade!Next

\* However often one process is interrupted, the upgrade of a store of any version goes
\* on where it stopped, and where something else created an object of a later step the
\* store never serves.
THEOREM UpgradeIsResumed ==
    ASSUME Upgrade!MigrationsAssumption
    PROVE  Upgrade!Spec => [](Upgrade!TypeOK /\ Upgrade!ChainReRuns /\ Upgrade!ForeignIsRefused)
<1>1. Upgrade!Init => UpgradeHolds
  BY UpgradeStarts
<1>2. UpgradeHolds /\ [Upgrade!Next]_(Upgrade!vars) => UpgradeHolds'
  BY UpgradeGoesOn
<1>3. UpgradeHolds => Upgrade!TypeOK /\ Upgrade!ChainReRuns /\ Upgrade!ForeignIsRefused
  <2>. SUFFICES ASSUME UpgradeHolds
                PROVE  Upgrade!TypeOK /\ Upgrade!ChainReRuns /\ Upgrade!ForeignIsRefused
    OBVIOUS
  <2>0. /\ proc[Upgrader] \in Slot /\ Remembers(proc[Upgrader]) /\ UpgradedDisk
        /\ opens \in 0..MaxOpens
    BY DEF UpgradeHolds
  <2>1. objects \subseteq 1..Upgrade!Latest /\ foreign \subseteq objects
    BY <2>0 DEF UpgradedDisk, Upgrade!Creating, Upgrade!Base, Upgrade!Latest
  <2>2. Upgrade!TypeOK
    BY <2>0, <2>1 DEF Upgrade!TypeOK, Slot, Remembers, UpgradedDisk
  <2>3. Upgrade!ChainReRuns
    BY <2>0 DEF Upgrade!ChainReRuns, UpgradedDisk, Upgrade!Latest
  <2>4. Upgrade!ForeignIsRefused
    <3>1. SUFFICES ASSUME NEW v \in foreign, proc[Upgrader].phase = "serving" PROVE FALSE
      BY DEF Upgrade!ForeignIsRefused
    <3>2. version = Upgrade!Latest
      BY <2>0, <3>1 DEF Remembers
    <3>. QED  BY <2>0, <3>1, <3>2 DEF UpgradedDisk, Upgrade!Creating, Upgrade!Base, Upgrade!Latest
  <2>. QED  BY <2>2, <2>3, <2>4
<1>. QED  BY <1>1, <1>2, <1>3, PTL DEF Upgrade!Spec

-----------------------------------------------------------------------------
(* Migrations: processes create the store together *)

\* The steps up to height have been made, whoever made them.  The version on disk is
\* that height, unless a step that may run again has written its own number since.
CreatedDisk(height) ==
    /\ height \in {0} \cup 2..Openers!Latest
    /\ objects = 1..height /\ foreign = {}
    /\ \/ version = height
       \/ version \in {16, 17} /\ version <= height
    /\ guard \in Openers!Guarding \cup {0} /\ (height >= 2 => guard # 0)
    /\ height >= 16 => guard = 16
    /\ row \in {"migrated", "voided"} /\ opens \in 0..MaxOpens

\* No process remembers a version above that height.
FitsUnder(q, height) ==
    /\ q.phase # "closed" => height >= 2
    /\ q.phase \in {"chain", "snapshot", "serving"} => q.at \in 2..height
    /\ q.phase = "serving" => q.at = Openers!Latest

Built(height) ==
    /\ CreatedDisk(height) /\ proc \in [Processes -> Slot]
    /\ \A p \in Processes : FitsUnder(proc[p], height)

LEMMA OpenersStart ==
    ASSUME Openers!MigrationsAssumption, Openers!Init PROVE Built(0)
<1>1. /\ version = 0 /\ row = "migrated" /\ foreign = {} /\ objects = (1..0) \cup {}
      /\ guard = Openers!LatestGuard(0) /\ opens = 0 /\ MaxOpens \in Nat
      /\ proc = [p \in Processes |-> Openers!Closed]
  BY DEF Openers!Init, Openers!MigrationsAssumption
<1>2. Openers!LatestGuard(0) = Upgrade!LatestGuard(0)
  BY DEF Openers!LatestGuard, Upgrade!LatestGuard, Openers!Guarding, Upgrade!Guarding
<1>3. guard \in Openers!Guarding \cup {0}
  BY <1>1, <1>2, GuardIsOneOfThem DEF Openers!Guarding, Upgrade!Guarding, Upgrade!Latest
<1>4. CreatedDisk(0)
  BY <1>1, <1>3 DEF CreatedDisk
<1>5. Openers!Closed \in Slot /\ FitsUnder(Openers!Closed, 0)
  BY DEF Slot, FitsUnder, Openers!Closed, Upgrade!Phases, Upgrade!Latest
<1>6. \A p \in Processes : proc[p] = Openers!Closed
  BY <1>1
<1>. QED  BY <1>1, <1>4, <1>5, <1>6 DEF Built

\* A step of p that leaves the objects and the version where they are.
LEMMA OpenerMoves ==
    ASSUME NEW height, Built(height), NEW p \in Processes, NEW q \in Slot,
           proc' = [proc EXCEPT ![p] = q], FitsUnder(q, height), CreatedDisk(height)'
    PROVE  Built(height)'
<1>1. proc' \in [Processes -> Slot]
  BY DEF Built
<1>2. \A r \in Processes : proc'[r] = IF r = p THEN q ELSE proc[r]
  BY DEF Built
<1>3. \A r \in Processes : FitsUnder(proc'[r], height)
  BY <1>2 DEF Built
<1>. QED  BY <1>1, <1>3 DEF Built

\* A step of the chain that commits: of the next version, or of one that may run again.
LEMMA OpenerCommits ==
    ASSUME NEW height, Built(height), NEW p \in Processes, Openers!Ready(p), Openers!Commit(p),
           Openers!Target(p) \in 3..Openers!Latest,
           ~Openers!Conflict(p), UNCHANGED <<foreign, row, opens>>,
           guard' \in Openers!Guarding, guard' = 16 \/ (guard' = guard /\ Openers!Target(p) # 16)
               \/ (guard' = Openers!Target(p) /\ Openers!Target(p) = height + 1)
    PROVE  \E h \in Nat : Built(h)'
<1>. DEFINE k == Openers!Target(p)
<1>1. /\ proc \in [Processes -> Slot] /\ CreatedDisk(height)
      /\ \A r \in Processes : FitsUnder(proc[r], height)
  BY DEF Built
<1>2. /\ proc[p] \in Slot /\ proc[p].phase \in {"chain", "snapshot"} /\ proc[p].at \in 2..height
      /\ k = proc[p].at + 1
  BY <1>1 DEF Openers!Ready, Openers!Target, FitsUnder
<1>3. height \in 2..18 /\ k \in 3..18 /\ k <= height + 1
  BY <1>1, <1>2 DEF CreatedDisk, Openers!Latest
<1>4. k = height + 1 \/ k \in {16, 17}
  <2>1. k \in Openers!Creating => k \notin 1..height
    BY <1>1 DEF Openers!Conflict, CreatedDisk
  <2>2. k \in Openers!Creating \/ k \in {16, 17}
    BY <1>3 DEF Openers!Creating, Openers!Base, Openers!Rerunning, Openers!Latest
  <2>. QED  BY <1>3, <2>1, <2>2
<1>5. PICK h \in 2..18 : height <= h /\ k <= h /\ (h = k \/ (h = height /\ k \in {16, 17} /\ k <= height))
  <2>1. CASE k > height
    BY <1>3, <1>4, <2>1
  <2>2. CASE k <= height
    BY <1>3, <1>4, <2>2
  <2>. QED  BY <1>3, <2>1, <2>2
<1>6. version' = k /\ objects' = objects \cup {k}
      /\ proc' = [q \in Processes |-> IF q = p THEN Walked(proc[p], "chain", k)
                                      ELSE [proc[q] EXCEPT !.lost = TRUE]]
  BY DEF Openers!Commit, Openers!Committed, Walked
<1>7. CreatedDisk(h)'
  <2>1. objects' = 1..h
    BY <1>1, <1>3, <1>4, <1>5, <1>6 DEF CreatedDisk
  <2>2. guard' # 0 /\ (h >= 16 => guard' = 16)
    BY <1>1, <1>3, <1>4, <1>5 DEF CreatedDisk, Openers!Guarding
  <2>3. /\ foreign' = {} /\ row' \in {"migrated", "voided"} /\ opens' \in 0..MaxOpens
        /\ version' = h \/ (version' \in {16, 17} /\ version' <= h)
    BY <1>1, <1>5, <1>6 DEF CreatedDisk
  <2>. QED  BY <1>5, <2>1, <2>2, <2>3 DEF CreatedDisk, Openers!Latest
<1>8. \A q \in Processes : /\ proc[q] \in Slot /\ FitsUnder(proc[q], height)
  BY <1>1
<1>9. ASSUME NEW q \in Processes PROVE proc'[q] \in Slot /\ FitsUnder(proc'[q], h)
  <2>1. CASE q = p
    <3>1. proc'[p] = Walked(proc[p], "chain", k)
      BY <1>6
    <3>2. /\ Walked(proc[p], "chain", k) \in Slot
          /\ Walked(proc[p], "chain", k).phase = "chain"
          /\ Walked(proc[p], "chain", k).at = k
      <4>1. proc[p] \in Slot /\ k \in 0..Upgrade!Latest
        BY <1>2, <1>3 DEF Upgrade!Latest
      <4>. HIDE DEF k
      <4>. QED  BY <4>1, ChainPhase, SlotMoves
    <3>3. k \in 2..h /\ h >= 2
      BY <1>3, <1>5
    <3>. HIDE DEF k
    <3>. QED  BY <2>1, <3>1, <3>2, <3>3 DEF FitsUnder
  <2>2. CASE q # p
    <3>1. proc'[q] = [proc[q] EXCEPT !.lost = TRUE]
      BY <1>6, <2>2
    <3>2. /\ [proc[q] EXCEPT !.lost = TRUE] \in Slot
          /\ [proc[q] EXCEPT !.lost = TRUE].phase = proc[q].phase
          /\ [proc[q] EXCEPT !.lost = TRUE].at = proc[q].at
      BY <1>8 DEF Slot
    <3>3. /\ proc[q].phase # "closed" => h >= 2
          /\ proc[q].phase \in {"chain", "snapshot", "serving"} => proc[q].at \in 2..h
          /\ proc[q].phase = "serving" => proc[q].at = Openers!Latest
      BY <1>3, <1>5, <1>8 DEF FitsUnder
    <3>. QED  BY <3>1, <3>2, <3>3 DEF FitsUnder
  <2>. QED  BY <2>1, <2>2
<1>10. proc' \in [Processes -> Slot]
  BY <1>6, <1>9
<1>. HIDE DEF k
<1>11. Built(h)'
  BY <1>7, <1>9, <1>10 DEF Built
<1>. QED  BY <1>5, <1>11

LEMMA OpenersGoOn ==
    ASSUME Openers!MigrationsAssumption, NEW height \in Nat, Built(height), NEW p \in Processes,
           \/ Openers!Open(p) \/ Openers!ReadVersion(p) \/ Openers!TakeSnapshot(p)
           \/ Openers!StepChain(p) \/ Openers!FailStep(p)
           \/ Openers!Serve(p) \/ Openers!Void(p) \/ Openers!Close(p)
    PROVE  \E h \in Nat : Built(h)'
<1>. DEFINE q == proc[p]
<1>0. /\ q \in Slot /\ FitsUnder(q, height) /\ CreatedDisk(height)
      /\ proc \in [Processes -> Slot] /\ MaxOpens \in Nat
      /\ \A r \in Processes : proc[r] \in Slot /\ FitsUnder(proc[r], height)
  BY DEF Built, Openers!MigrationsAssumption
\* Moves of one process alone.
<1>1. ASSUME NEW r \in Slot, proc' = [proc EXCEPT ![p] = r], FitsUnder(r, height),
             UNCHANGED <<version, objects, foreign, guard, row, opens>>
      PROVE  \E h \in Nat : Built(h)'
  <2>1. CreatedDisk(height)'
    BY <1>0, <1>1 DEF CreatedDisk
  <2>. QED  BY <1>1, <2>1, OpenerMoves
<1>2. CASE Openers!Open(p)
  <2>1. /\ opens' = opens + 1 /\ opens < MaxOpens /\ UNCHANGED <<foreign, row>>
        /\ proc' = [proc EXCEPT ![p] = [q EXCEPT !.phase = "opened"]]
    BY <1>0, <1>2 DEF Openers!Open, Openers!Goes
  <2>2. [q EXCEPT !.phase = "opened"] \in Slot /\ [q EXCEPT !.phase = "opened"].phase = "opened"
    BY <1>0 DEF Slot, Upgrade!Phases
  <2>3. opens' \in 0..MaxOpens
    BY <1>0, <2>1 DEF CreatedDisk
  <2>4. CASE version # 0
    <3>1. UNCHANGED <<version, objects, guard>>
      BY <1>2, <2>4 DEF Openers!Open
    <3>2. CreatedDisk(height)' /\ height >= 2
      BY <1>0, <2>1, <2>3, <2>4, <3>1 DEF CreatedDisk
    <3>3. FitsUnder([q EXCEPT !.phase = "opened"], height)
      BY <2>2, <3>2 DEF FitsUnder
    <3>. QED  BY <2>1, <2>2, <3>2, <3>3, OpenerMoves
  <2>5. CASE version = 0
    <3>1. version' = 2 /\ objects' = objects \cup 1..2 /\ guard' = 2
      BY <1>2, <2>5 DEF Openers!Open, Openers!Base
    <3>2. height = 0
      BY <1>0, <2>5 DEF CreatedDisk
    <3>3. objects' = 1..2
      BY <1>0, <3>1, <3>2 DEF CreatedDisk
    <3>4. CreatedDisk(2)'
      BY <1>0, <2>1, <2>3, <3>1, <3>3 DEF CreatedDisk, Openers!Latest, Openers!Guarding
    <3>5. \A r \in Processes : proc[r].phase = "closed"
      BY <1>0, <3>2 DEF FitsUnder
    <3>6. ASSUME NEW r \in Processes PROVE proc'[r] \in Slot /\ proc'[r].phase \in {"closed", "opened"}
      BY <1>0, <2>1, <2>2, <3>5
    <3>7. \A r \in Processes : FitsUnder(proc'[r], 2)
      BY <3>6 DEF FitsUnder
    <3>8. proc' \in [Processes -> Slot]
      BY <1>0, <2>1, <2>2
    <3>9. Built(2)'
      BY <3>4, <3>7, <3>8 DEF Built
    <3>. QED  BY <3>9
  <2>. QED  BY <2>4, <2>5
<1>3. CASE Openers!ReadVersion(p)
  <2>1. proc' = [proc EXCEPT ![p] = Walked(q, "chain", version)] /\ q.phase = "opened"
    BY <1>0, <1>3 DEF Openers!ReadVersion, Walked
  <2>2. version \in 2..height /\ version \in 0..Upgrade!Latest
    BY <1>0, <2>1 DEF CreatedDisk, FitsUnder, Openers!Latest, Upgrade!Latest
  <2>3. /\ Walked(q, "chain", version) \in Slot
        /\ Walked(q, "chain", version).phase = "chain"
        /\ Walked(q, "chain", version).at = version
    BY <1>0, <2>2, ChainPhase, SlotMoves
  <2>4. FitsUnder(Walked(q, "chain", version), height)
    BY <1>0, <2>1, <2>2, <2>3 DEF FitsUnder
  <2>. QED  BY <1>1, <1>3, <2>1, <2>3, <2>4 DEF Openers!ReadVersion, Openers!store
<1>4. CASE Openers!TakeSnapshot(p)
  <2>1. /\ q.phase = "chain"
        /\ proc' = [proc EXCEPT ![p] = [q EXCEPT !.phase = "snapshot", !.lost = FALSE]]
    BY <1>0, <1>4 DEF Openers!TakeSnapshot
  <2>2. /\ [q EXCEPT !.phase = "snapshot", !.lost = FALSE] \in Slot
        /\ [q EXCEPT !.phase = "snapshot", !.lost = FALSE].phase = "snapshot"
        /\ [q EXCEPT !.phase = "snapshot", !.lost = FALSE].at = q.at
    BY <1>0 DEF Slot, Upgrade!Phases
  <2>3. FitsUnder([q EXCEPT !.phase = "snapshot", !.lost = FALSE], height)
    BY <1>0, <2>1, <2>2 DEF FitsUnder
  <2>. QED  BY <1>1, <1>4, <2>1, <2>2, <2>3 DEF Openers!TakeSnapshot, Openers!store
<1>5. CASE Openers!FailStep(p)
  <2>1. proc' = [proc EXCEPT ![p] = [q EXCEPT !.phase = "failed"]] /\ q.phase \in {"chain", "snapshot"}
    BY <1>0, <1>5 DEF Openers!FailStep, Openers!Goes, Openers!Ready
  <2>2. [q EXCEPT !.phase = "failed"] \in Slot /\ [q EXCEPT !.phase = "failed"].phase = "failed"
    BY <1>0 DEF Slot, Upgrade!Phases
  <2>3. FitsUnder([q EXCEPT !.phase = "failed"], height)
    BY <1>0, <2>1, <2>2 DEF FitsUnder
  <2>. QED  BY <1>1, <1>5, <2>1, <2>2, <2>3 DEF Openers!FailStep, Openers!store
<1>6. CASE Openers!Serve(p)
  <2>1. /\ proc' = [proc EXCEPT ![p] = [q EXCEPT !.phase = "serving"]]
        /\ q.phase = "chain" /\ q.at = Openers!Latest
    BY <1>0, <1>6 DEF Openers!Serve, Openers!Goes
  <2>2. /\ [q EXCEPT !.phase = "serving"] \in Slot /\ [q EXCEPT !.phase = "serving"].phase = "serving"
        /\ [q EXCEPT !.phase = "serving"].at = q.at
    BY <1>0 DEF Slot, Upgrade!Phases
  <2>3. FitsUnder([q EXCEPT !.phase = "serving"], height)
    BY <1>0, <2>1, <2>2 DEF FitsUnder
  <2>. QED  BY <1>1, <1>6, <2>1, <2>2, <2>3 DEF Openers!Serve, Openers!store
<1>7. CASE Openers!Close(p)
  <2>1. proc' = [proc EXCEPT ![p] = Openers!Closed]
    BY <1>7 DEF Openers!Close
  <2>2. Openers!Closed \in Slot /\ FitsUnder(Openers!Closed, height)
    BY DEF Slot, Upgrade!Phases, Upgrade!Latest, Openers!Closed, FitsUnder
  <2>. QED  BY <1>1, <1>7, <2>1, <2>2 DEF Openers!Close, Openers!store
<1>8. CASE Openers!Void(p)
  <2>1. UNCHANGED <<version, objects, foreign, guard, proc, opens>> /\ row' = "voided"
    BY <1>8 DEF Openers!Void
  <2>2. CreatedDisk(height)'
    BY <1>0, <2>1 DEF CreatedDisk
  <2>. QED  BY <1>0, <2>1, <2>2 DEF Built
<1>9. CASE Openers!StepChain(p)
  <2>1. /\ Openers!Ready(p) /\ Openers!Commit(p) /\ ~Openers!Conflict(p) /\ UNCHANGED <<foreign, opens>>
        /\ Openers!Target(p) \in Openers!Creating \cup {2, 16, 17}
    BY <1>9 DEF Openers!StepChain, Openers!Backfill, Openers!Extend, Openers!RefineGuard,
       Openers!RequireConfidence, Openers!MayStep
  <2>2. q.at \in 2..height /\ height \in 2..18 /\ Openers!Target(p) = q.at + 1
    BY <1>0, <2>1 DEF Openers!Ready, FitsUnder, Openers!Target, CreatedDisk, Openers!Latest
  <2>3. Openers!Target(p) \in 3..Openers!Latest
    BY <2>1, <2>2 DEF Openers!Creating, Openers!Base, Openers!Latest
  <2>4. ~Openers!Backfill(p)
    BY <2>2 DEF Openers!Backfill, Openers!MayStep
  <2>5. guard \in Openers!Guarding
    BY <1>0, <2>2 DEF CreatedDisk
  <2>6. CASE Openers!Extend(p)
    <3>1. /\ row' = row /\ Openers!Target(p) \in Openers!Creating
          /\ guard' = IF Openers!Target(p) \in Openers!Guarding THEN Openers!Target(p) ELSE guard
      BY <2>6 DEF Openers!Extend, Openers!MayStep
    <3>2. Openers!Target(p) \notin 1..height
      BY <1>0, <2>1, <3>1 DEF Openers!Conflict, CreatedDisk
    <3>3. Openers!Target(p) = height + 1 /\ Openers!Target(p) # 16
      BY <2>2, <3>1, <3>2 DEF Openers!Creating, Openers!Rerunning
    <3>4. /\ guard' \in Openers!Guarding
          /\ guard' = guard \/ guard' = Openers!Target(p)
      BY <2>5, <3>1
    <3>. QED  BY <2>1, <2>3, <3>1, <3>3, <3>4, OpenerCommits
  <2>7. CASE Openers!RefineGuard(p)
    <3>1. row' = row /\ guard' = 16 /\ guard' \in Openers!Guarding
      BY <2>7 DEF Openers!RefineGuard, Openers!Guarding
    <3>. QED  BY <2>1, <2>3, <3>1, OpenerCommits
  <2>8. CASE Openers!RequireConfidence(p)
    <3>1. row' = row /\ guard' = guard /\ Openers!Target(p) = 17
      BY <2>8 DEF Openers!RequireConfidence, Openers!MayStep
    <3>. QED  BY <2>1, <2>3, <2>5, <3>1, OpenerCommits
  <2>. QED  BY <1>9, <2>4, <2>6, <2>7, <2>8 DEF Openers!StepChain
<1>. QED  BY <1>2, <1>3, <1>4, <1>5, <1>6, <1>7, <1>8, <1>9

\* However many processes create a store together, and whichever of them die, its version
\* says which objects there are, and one that serves has the whole layout and the newest guard.
THEOREM CreationIsWhole ==
    ASSUME Openers!MigrationsAssumption
    PROVE  Openers!Spec => [](Openers!TypeOK /\ Openers!VersionTellsObjects /\ Openers!ServedLayoutIsComplete)
<1>. DEFINE IInv == \E h \in Nat : Built(h)
<1>1. Openers!Init => IInv
  BY OpenersStart
<1>2. IInv /\ [Openers!Next]_(Openers!vars) => IInv'
  <2>. SUFFICES ASSUME NEW h \in Nat, Built(h), [Openers!Next]_(Openers!vars) PROVE IInv'
    OBVIOUS
  <2>1. CASE UNCHANGED Openers!vars
    <3>1. Built(h)'
      BY <2>1 DEF Openers!vars, Built, CreatedDisk
    <3>. QED  BY <3>1
  <2>2. CASE Openers!Next
    BY <2>2, OpenersGoOn DEF Openers!Next
  <2>. QED  BY <2>1, <2>2
<1>3. IInv => Openers!TypeOK /\ Openers!VersionTellsObjects /\ Openers!ServedLayoutIsComplete
  <2>. SUFFICES ASSUME NEW h \in Nat, Built(h)
                PROVE  Openers!TypeOK /\ Openers!VersionTellsObjects /\ Openers!ServedLayoutIsComplete
    OBVIOUS
  <2>0. CreatedDisk(h) /\ \A p \in Processes : proc[p] \in Slot /\ FitsUnder(proc[p], h)
    BY DEF Built
  <2>1. Openers!TypeOK
    BY <2>0 DEF CreatedDisk, FitsUnder, Slot, Openers!TypeOK, Openers!Latest, Upgrade!Latest,
       Openers!Phases, Upgrade!Phases
  <2>2. Openers!VersionTellsObjects
    BY <2>0 DEF CreatedDisk, Openers!VersionTellsObjects
  <2>3. Openers!ServedLayoutIsComplete
    <3>1. SUFFICES ASSUME NEW p \in Processes, proc[p].phase = "serving"
                   PROVE  1..Openers!Latest \subseteq objects /\ guard = 16
      BY DEF Openers!ServedLayoutIsComplete
    <3>2. h = 18
      BY <2>0, <3>1 DEF FitsUnder, CreatedDisk, Openers!Latest
    <3>. QED  BY <2>0, <3>2 DEF CreatedDisk, Openers!Latest
  <2>. QED  BY <2>1, <2>2, <2>3
<1>. QED  BY <1>1, <1>2, <1>3, PTL DEF Openers!Spec

-----------------------------------------------------------------------------
(* The composition *)

everything == <<opening, vars, part>>

\* The instance for TLC behaves as its parts do.
LEMMA PartsRun ==
    MCSpec => /\ Spec
              /\ part = "upgrade" => Upgrade!Spec
              /\ part # "upgrade" => Openers!Spec
<1>. DEFINE P == part = "upgrade"
<1>1. /\ MCInit => Init
      /\ MCInit /\ P => Upgrade!Init
      /\ MCInit /\ ~P => Openers!Init
  BY DEF MCInit
<1>2. [MCNext]_everything => [Next]_vars
  BY DEF MCNext, UpgradePart, OpenersPart, PrincipalPart, RefreshPart, everything
<1>3. /\ P /\ [MCNext]_everything => P' /\ [Upgrade!Next]_(Upgrade!vars)
      /\ ~P /\ [MCNext]_everything => ~P' /\ [Openers!Next]_(Openers!vars)
  BY DEF MCNext, UpgradePart, OpenersPart, PrincipalPart, RefreshPart, everything, opening,
         Upgrade!vars, Openers!vars
<1>. HIDE DEF P
<1>4. MCSpec => Spec
  BY <1>1, <1>2, PTL DEF MCSpec, Spec, everything
<1>5. MCSpec /\ P => Upgrade!Spec
  BY <1>1, <1>3, PTL DEF MCSpec, Upgrade!Spec, everything
<1>6. MCSpec /\ ~P => Openers!Spec
  BY <1>1, <1>3, PTL DEF MCSpec, Openers!Spec, everything
<1>. QED  BY <1>4, <1>5, <1>6 DEF P

LEMMA StoreTypedAndWhole == MCSpec => [](TypesOK /\ StoreOpensWhole)
<1>. DEFINE P == part = "upgrade"
            U == Upgrade!TypeOK /\ Upgrade!ChainReRuns /\ Upgrade!ForeignIsRefused
            O == Openers!TypeOK /\ Openers!VersionTellsObjects /\ Openers!ServedLayoutIsComplete
<1>1. (Upgrade!Spec => []U) /\ (Openers!Spec => []O) /\ (Spec => []TypeOK)
  BY PartsAssumption, UpgradeIsResumed, CreationIsWhole, TypesHold
<1>2. /\ P /\ [MCNext]_everything => P'
      /\ ~P /\ [MCNext]_everything => ~P'
  BY DEF MCNext, UpgradePart, OpenersPart, PrincipalPart, RefreshPart, everything
<1>3. /\ P /\ U /\ TypeOK => TypesOK /\ StoreOpensWhole
      /\ ~P /\ O /\ TypeOK => TypesOK /\ StoreOpensWhole
  BY DEF TypesOK, StoreOpensWhole
<1>4. (MCSpec /\ P => []U) /\ (MCSpec /\ ~P => []O) /\ (MCSpec => []TypeOK)
  BY <1>1, PartsRun
<1>. HIDE DEF P, U, O
<1>5. (MCSpec /\ P => []P) /\ (MCSpec /\ ~P => []~P)
  BY <1>2, PTL DEF MCSpec, everything
<1>. QED  BY <1>3, <1>4, <1>5, PTL

\* The layout of the store and the requests are well typed.
THEOREM EverythingTyped == MCSpec => []TypesOK
BY StoreTypedAndWhole, PTL

\* A store opens whole or not at all, whoever upgrades or creates it, dies and opens it
\* again, and whatever something else had created there.
THEOREM StoreOpens == MCSpec => []StoreOpensWhole
BY StoreTypedAndWhole, PTL

===============================================================================
