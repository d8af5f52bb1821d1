-------------------------- MODULE SessionCacheProofs --------------------------
(***************************************************************************)
(* Proofs about SessionCache, for any sets of users, sessions, requests    *)
(* and delete handlers and any TTL: its invariants, and that it implements *)
(* SessionAccess.                                                          *)
(***************************************************************************)
EXTENDS SessionCache, TLAPS

(* What the invariants need to be inductive.                                *)

\* A request under way has a user and a session; one that holds a copy of the
\* row is for a session that was created; one with claims is the owner's.
RequestInv ==
  \A q \in Requests :
    /\ pc[q] # "idle" => user[q] \in Users /\ sid[q] \in Sessions
    /\ HoldsCopy(q) => Used(sid[q])
    /\ Served(q) => owner[sid[q]] = user[q]

\* A delete handler under way deletes a session whose row is gone.
DeleteInv ==
  \A d \in Deletes : dpc[d] # "idle" => dsid[d] \in Sessions /\ Deleted(dsid[d])

\* Only rows that existed are cached.
CachedInv == \A s \in Sessions : Fresh(sessionAge[s]) => Used(s)

\* Once a deletion is invalidated and was not overtaken, there is no copy of the
\* row left in the cache and no request is about to put one there.
StaleInv ==
  \A s \in Sessions :
    Deleted(s) /\ ~Deleting(s) /\ s \notin overtaken =>
      /\ ~Fresh(sessionAge[s])
      /\ \A q \in Requests : ~(pc[q] = "fill" /\ sid[q] = s)

\* Under each key is the client of that session and endpoint.
ClientInv ==
  \A s \in Sessions, pub \in BOOLEAN :
    Fresh(clientAge[CacheKey(s, pub)]) =>
      client[CacheKey(s, pub)] = [session |-> s, public |-> pub]

IInv ==
  /\ TypeOK
  /\ RequestInv
  /\ DeleteInv
  /\ CachedInv
  /\ StaleInv
  /\ ClientInv
  /\ ClientMatchesSession

-------------------------------------------------------------------------------

\* The negated id of createPublicSession never meets another session's key.
LEMMA CacheKeyInjective ==
  ASSUME NEW s \in Sessions, NEW t \in Sessions, NEW p \in BOOLEAN, NEW r \in BOOLEAN
  PROVE  /\ CacheKey(s, p) \in ClientKeys
         /\ CacheKey(s, p) = CacheKey(t, r) => s = t /\ p = r
  BY SessionsAssumption DEF CacheKey, ClientKeys

\* Ages stay within range, and no age is fresh again by getting older.
LEMMA AgesFacts ==
  /\ 0 \in Ages /\ Expired \in Ages /\ Fresh(0) /\ ~Fresh(Expired)
  /\ \A a \in Ages : Older(a) \in Ages /\ (Fresh(Older(a)) => Fresh(a) /\ Fresh(a + 1))
  BY TTLAssumption DEF Ages, Expired, Fresh, Older

\* No step changes the owner of a session already created.
LEMMA OwnerStable ==
  TypeOK /\ [Next]_vars =>
    \A s \in Sessions : owner[s] # NoUser => owner'[s] = owner[s]
  <1> SUFFICES ASSUME TypeOK, [Next]_vars, NEW s \in Sessions, Used(s)
               PROVE  owner'[s] = owner[s]
    BY DEF Used
  <1>1. CASE UNCHANGED vars
    BY <1>1 DEF vars, rowVars, Used
  <1>2. CASE \E u \in Users, t \in Sessions : CreateSession(u, t)
    BY <1>2 DEF CreateSession, Used, TypeOK
  <1>3. CASE UNCHANGED owner
    BY <1>3 DEF Used
  <1>4. QED
    BY <1>1, <1>2, <1>3 DEF Next, RequestStep, DeleteStep, Arrive, GetSession,
       GetSessionByID, SetSession, Authorize, GetAWSSession, SetAWSSession, Respond, AskAgain,
       DeleteSession, InvalidateSession, InvalidateAWSSession, Tick, Restart, rowVars

-------------------------------------------------------------------------------

LEMMA TypeInit == Init => TypeOK
  BY AgesFacts DEF Init, TypeOK

LEMMA TypeStep == IInv /\ [Next]_vars => TypeOK'
  <1> SUFFICES ASSUME IInv, [Next]_vars PROVE TypeOK'
    OBVIOUS
  <1> USE DEF IInv, TypeOK
  <1>1. ASSUME NEW u \in Users, NEW s \in Sessions, CreateSession(u, s) PROVE TypeOK'
    BY <1>1, NoUserAssumption
       DEF CreateSession, Used, cacheVars, requestVars, deleteVars
  <1>2. ASSUME NEW q \in Requests, NEW u \in Users, NEW s \in Sessions, Arrive(q, u, s)
        PROVE  TypeOK'
    BY <1>2 DEF Arrive, Used, rowVars, cacheVars, deleteVars
  <1>3. ASSUME NEW q \in Requests, GetSession(q) PROVE TypeOK'
    BY <1>3 DEF GetSession, Goto, Used, rowVars, cacheVars, deleteVars
  <1>4. ASSUME NEW q \in Requests, GetSessionByID(q) PROVE TypeOK'
    BY <1>4 DEF GetSessionByID, Goto, End, Used, rowVars, cacheVars, deleteVars
  <1>5. ASSUME NEW q \in Requests, SetSession(q) PROVE TypeOK'
    BY <1>5, AgesFacts DEF SetSession, Goto, Used, rowVars, deleteVars
  <1>6. ASSUME NEW q \in Requests, Authorize(q) PROVE TypeOK'
    BY <1>6 DEF Authorize, Goto, End, Used, rowVars, cacheVars, deleteVars
  <1>7. ASSUME NEW q \in Requests, NEW pub \in BOOLEAN, GetAWSSession(q, pub) PROVE TypeOK'
    <2>1. CacheKey(sid[q], pub) \in ClientKeys
      BY <1>7, CacheKeyInjective DEF GetAWSSession, RequestInv
    <2>2. QED
      BY <1>7, <2>1 DEF GetAWSSession, Used, rowVars, cacheVars, deleteVars
  <1>8. ASSUME NEW q \in Requests, SetAWSSession(q) PROVE TypeOK'
    <2>1. [session |-> sid[q], public |-> public[q]] \in Clients
      BY <1>8 DEF SetAWSSession, RequestInv, Clients
    <2>2. UNCHANGED <<stored, owner, sessionAge, dpc, dsid, overtaken>>
      BY <1>8 DEF SetAWSSession, rowVars, deleteVars
    <2>3. /\ client' \in [ClientKeys -> Clients \cup {NoClient}]
          /\ clientAge' \in [ClientKeys -> Ages]
      BY <1>8, <2>1, AgesFacts DEF SetAWSSession
    <2>4. /\ pc' \in [Requests -> {"idle", "lookup", "miss", "fill", "check",
                                   "handle", "build", "client"}]
          /\ user' \in [Requests -> Users \cup {NoUser}]
          /\ sid' \in [Requests -> Sessions \cup {0}]
          /\ public' \in [Requests -> BOOLEAN]
      BY <1>8 DEF SetAWSSession, End
    <2>5. got' \in [Requests -> Clients \cup {NoClient}]
      BY <1>8, <2>1 DEF SetAWSSession, End
    <2>6. QED
      BY <2>2, <2>3, <2>4, <2>5 DEF Used
  <1>9. ASSUME NEW q \in Requests, Respond(q) \/ AskAgain(q) PROVE TypeOK'
    BY <1>9 DEF Respond, AskAgain, End, Used, rowVars, cacheVars, deleteVars
  <1>10. ASSUME NEW d \in Deletes, NEW u \in Users, NEW s \in Sessions, DeleteSession(d, u, s)
         PROVE  TypeOK'
    BY <1>10 DEF DeleteSession, Used, cacheVars, requestVars, deleteVars
  <1>11. ASSUME NEW d \in Deletes, InvalidateSession(d) PROVE TypeOK'
    BY <1>11, AgesFacts DEF InvalidateSession, DeleteInv, Deleted, Used, rowVars, requestVars
  <1>12. ASSUME NEW d \in Deletes, InvalidateAWSSession(d) PROVE TypeOK'
    <2>1. dsid[d] \in Sessions /\ Used(dsid[d])
      BY <1>12 DEF InvalidateAWSSession, DeleteInv, Deleted
    <2>2. UNCHANGED <<rowVars, sessionAge, requestVars, overtaken>>
      BY <1>12 DEF InvalidateAWSSession
    <2>3. /\ client' \in [ClientKeys -> Clients \cup {NoClient}]
          /\ clientAge' \in [ClientKeys -> Ages]
      BY <1>12, AgesFacts DEF InvalidateAWSSession
    <2>4. /\ dpc' \in [Deletes -> {"idle", "invalidate", "invalidateAWS"}]
          /\ dsid' \in [Deletes -> Sessions \cup {0}]
      BY <1>12 DEF InvalidateAWSSession
    <2>5. QED
      BY <2>2, <2>3, <2>4 DEF Used, rowVars, requestVars
  <1>13. CASE Tick
    BY <1>13, AgesFacts DEF Tick, Used, rowVars, requestVars, deleteVars
  <1>14. CASE Restart
    BY <1>14, AgesFacts DEF Restart, Used, rowVars
  <1>15. CASE UNCHANGED vars
    BY <1>15 DEF vars, Used, rowVars, cacheVars, requestVars, deleteVars
  <1>16. QED
    BY <1>1, <1>2, <1>3, <1>4, <1>5, <1>6, <1>7, <1>8, <1>9, <1>10, <1>11, <1>12,
       <1>13, <1>14, <1>15 DEF Next, RequestStep, DeleteStep

-------------------------------------------------------------------------------

\* A step of one request leaves the others where they were.
LEMMA RequestStepInv == IInv /\ [Next]_vars => RequestInv'
  <1> SUFFICES ASSUME IInv, [Next]_vars, NEW p \in Requests
               PROVE  /\ pc'[p] # "idle" => user'[p] \in Users /\ sid'[p] \in Sessions
                      /\ HoldsCopy(p)' => Used(sid[p])'
                      /\ Served(p)' => owner'[sid'[p]] = user'[p]
    BY DEF RequestInv
  <1> USE DEF IInv, TypeOK, HoldsCopy, Served
  <1>1. /\ pc[p] # "idle" => user[p] \in Users /\ sid[p] \in Sessions
        /\ HoldsCopy(p) => Used(sid[p])
        /\ Served(p) => owner[sid[p]] = user[p]
    BY DEF RequestInv
  <1>2. ASSUME UNCHANGED <<pc[p], user[p], sid[p]>>
        PROVE  /\ pc'[p] # "idle" => user'[p] \in Users /\ sid'[p] \in Sessions
               /\ HoldsCopy(p)' => Used(sid[p])'
               /\ Served(p)' => owner'[sid'[p]] = user'[p]
    <2>1. CASE HoldsCopy(p)
      <3>1. sid[p] \in Sessions /\ Used(sid[p])
        BY <1>1, <2>1
      <3>2. owner'[sid[p]] = owner[sid[p]]
        BY <3>1, OwnerStable DEF Used
      <3>3. QED
        BY <1>1, <1>2, <3>1, <3>2, <2>1 DEF Used
    <2>2. CASE ~HoldsCopy(p)
      BY <1>1, <1>2, <2>2
    <2>3. QED
      BY <2>1, <2>2
  <1>3. CASE UNCHANGED requestVars
    BY <1>2, <1>3 DEF requestVars
  <1>4. ASSUME NEW q \in Requests,
               \/ \E u \in Users, s \in Sessions : Arrive(q, u, s)
               \/ RequestStep(q)
        PROVE  q # p => UNCHANGED <<pc[p], user[p], sid[p]>>
    BY <1>4 DEF RequestStep, Arrive, GetSession, GetSessionByID, SetSession, Authorize,
       GetAWSSession, SetAWSSession, Respond, AskAgain, Goto, End
  <1>5. CASE \E u \in Users, s \in Sessions : Arrive(p, u, s)
    BY <1>5 DEF Arrive
  <1>6. CASE GetSession(p)
    BY <1>1, <1>6 DEF GetSession, Goto, rowVars, CachedInv, Used
  <1>7. CASE GetSessionByID(p)
    BY <1>1, <1>7 DEF GetSessionByID, Goto, End, rowVars, Used
  <1>8. CASE SetSession(p)
    BY <1>1, <1>8 DEF SetSession, Goto, rowVars, Used
  <1>9. CASE Authorize(p)
    BY <1>1, <1>9 DEF Authorize, Goto, End, rowVars, Used
  <1>10. CASE \E pub \in BOOLEAN : GetAWSSession(p, pub)
    BY <1>1, <1>10 DEF GetAWSSession, rowVars, Used
  <1>11. CASE SetAWSSession(p)
    BY <1>1, <1>11 DEF SetAWSSession, End, rowVars, Used
  <1>12. CASE Respond(p) \/ AskAgain(p)
    BY <1>1, <1>12 DEF Respond, AskAgain, End, rowVars, Used
  <1>13. CASE Restart
    BY <1>13 DEF Restart
  <1>14. CASE \E q \in Requests :
                \/ \E u \in Users, s \in Sessions : Arrive(q, u, s)
                \/ RequestStep(q)
    BY <1>2, <1>4, <1>5, <1>6, <1>7, <1>8, <1>9, <1>10, <1>11, <1>12, <1>14
       DEF RequestStep
  <1>15. QED
    BY <1>3, <1>13, <1>14 DEF Next, vars, CreateSession, DeleteSession, DeleteStep,
       InvalidateSession, InvalidateAWSSession, Tick

LEMMA DeleteStepInv == IInv /\ [Next]_vars => DeleteInv'
  <1> SUFFICES ASSUME IInv, [Next]_vars, NEW e \in Deletes, dpc'[e] # "idle"
               PROVE  dsid'[e] \in Sessions /\ Deleted(dsid[e])'
    BY DEF DeleteInv
  <1> USE DEF IInv, TypeOK, Deleted, Used
  <1>1. dpc[e] # "idle" => dsid[e] \in Sessions /\ Deleted(dsid[e])
    BY DEF DeleteInv
  <1>2. CASE dpc[e] # "idle" /\ UNCHANGED dsid[e] /\ UNCHANGED rowVars
    BY <1>1, <1>2 DEF rowVars
  <1>3. ASSUME NEW u \in Users, NEW s \in Sessions, CreateSession(u, s)
        PROVE  dsid'[e] \in Sessions /\ Deleted(dsid[e])'
    BY <1>1, <1>3 DEF CreateSession, deleteVars
  <1>4. ASSUME NEW d \in Deletes, NEW u \in Users, NEW s \in Sessions, DeleteSession(d, u, s)
        PROVE  dsid'[e] \in Sessions /\ Deleted(dsid[e])'
    BY <1>1, <1>4 DEF DeleteSession, deleteVars
  <1>5. ASSUME NEW d \in Deletes, DeleteStep(d)
        PROVE  dsid'[e] \in Sessions /\ Deleted(dsid[e])'
    BY <1>1, <1>5 DEF DeleteStep, InvalidateSession, InvalidateAWSSession, rowVars
  <1>6. CASE Restart
    BY <1>6 DEF Restart
  <1>7. CASE UNCHANGED <<deleteVars, rowVars>>
    BY <1>2, <1>7 DEF deleteVars
  <1>8. QED
    BY <1>3, <1>4, <1>5, <1>6, <1>7 DEF Next, vars, RequestStep, Arrive, GetSession,
       GetSessionByID, SetSession, Authorize, GetAWSSession, SetAWSSession, Respond, AskAgain, Tick

LEMMA CachedStepInv == IInv /\ [Next]_vars => CachedInv'
  <1> SUFFICES ASSUME IInv, [Next]_vars, NEW s \in Sessions, Fresh(sessionAge[s])'
               PROVE  Used(s)'
    BY DEF CachedInv
  <1> USE DEF IInv
  <1>1. Fresh(sessionAge[s]) => Used(s)'
    BY OwnerStable DEF CachedInv, Used
  <1>2. CASE \E q \in Requests : SetSession(q)
    <2> PICK q \in Requests : SetSession(q)
      BY <1>2
    <2>1. CASE s = sid[q]
      BY <2>1, OwnerStable DEF RequestInv, SetSession, HoldsCopy, Used
    <2>2. CASE s # sid[q]
      BY <1>1, <2>2 DEF SetSession, Fresh, TypeOK
    <2>3. QED
      BY <2>1, <2>2
  <1>3. CASE \E d \in Deletes : InvalidateSession(d)
    BY <1>1, <1>3, AgesFacts DEF InvalidateSession, Fresh, TypeOK, DeleteInv
  <1>4. CASE Tick
    BY <1>1, <1>4, AgesFacts DEF Tick, Fresh, TypeOK
  <1>5. CASE Restart
    BY <1>5, AgesFacts DEF Restart, Fresh
  <1>6. CASE UNCHANGED sessionAge
    BY <1>1, <1>6 DEF Fresh
  <1>7. QED
    BY <1>2, <1>3, <1>4, <1>5, <1>6 DEF Next, vars, cacheVars, RequestStep, DeleteStep,
       CreateSession, Arrive, GetSession, GetSessionByID, Authorize, GetAWSSession,
       SetAWSSession, Respond, AskAgain, DeleteSession, InvalidateAWSSession

\* A copy of a deleted session reappears only through a fill that was under way
\* when the cache was invalidated, and that fill marks the session overtaken.
LEMMA StaleStepInv == IInv /\ [Next]_vars => StaleInv'
  <1> DEFINE Quiet(s) == /\ ~Fresh(sessionAge[s])
                         /\ \A q \in Requests : ~(pc[q] = "fill" /\ sid[q] = s)
  <1> SUFFICES ASSUME IInv, [Next]_vars, NEW s \in Sessions,
                      Deleted(s)', ~Deleting(s)', s \notin overtaken'
               PROVE  Quiet(s)'
    BY DEF StaleInv, Deleted, Used, Deleting, Fresh
  <1> USE DEF IInv, TypeOK, Deleted, Used, Deleting
  <1>1. Deleted(s) /\ ~Deleting(s) /\ s \notin overtaken => Quiet(s)
    BY DEF StaleInv
  <1>2. CASE UNCHANGED <<rowVars, dpc, dsid, overtaken, pc, sid, sessionAge>>
    BY <1>1, <1>2 DEF rowVars, Fresh
  <1>3. ASSUME NEW u \in Users, NEW t \in Sessions, CreateSession(u, t) PROVE Quiet(s)'
    BY <1>1, <1>3 DEF CreateSession, cacheVars, requestVars, deleteVars, Fresh
  <1>4. ASSUME NEW q \in Requests, NEW u \in Users, NEW t \in Sessions, Arrive(q, u, t)
        PROVE  Quiet(s)'
    BY <1>1, <1>4 DEF Arrive, rowVars, cacheVars, deleteVars, Fresh
  <1>5. ASSUME NEW q \in Requests, RequestStep(q) PROVE Quiet(s)'
    <2>1. UNCHANGED <<rowVars, dpc, dsid, overtaken>>
      BY <1>5 DEF RequestStep, GetSession, GetSessionByID, SetSession, Authorize,
         GetAWSSession, SetAWSSession, Respond, AskAgain, deleteVars
    <2>2. Quiet(s) /\ s \notin stored
      BY <1>1, <2>1 DEF rowVars
    <2>3. \A p \in Requests : ~(pc'[p] = "fill" /\ sid'[p] = s)
      BY <1>5, <2>2 DEF RequestStep, GetSession, GetSessionByID, SetSession, Authorize,
         GetAWSSession, SetAWSSession, Respond, AskAgain, Goto, End
    <2>4. sessionAge'[s] = sessionAge[s]
      BY <1>5, <2>2 DEF RequestStep, GetSession, GetSessionByID, SetSession, Authorize,
         GetAWSSession, SetAWSSession, Respond, AskAgain, cacheVars
    <2>5. QED
      BY <2>2, <2>3, <2>4 DEF Fresh
  <1>6. ASSUME NEW d \in Deletes, NEW u \in Users, NEW t \in Sessions, DeleteSession(d, u, t)
        PROVE  Quiet(s)'
    <2>1. s # t
      BY <1>6 DEF DeleteSession, deleteVars
    <2>2. QED
      BY <1>1, <1>6, <2>1 DEF DeleteSession, cacheVars, requestVars, deleteVars, Fresh
  <1>7. ASSUME NEW d \in Deletes, InvalidateSession(d) PROVE Quiet(s)'
    <2>1. CASE s = dsid[d]
      <3>1. \A q \in Requests : ~(pc[q] = "fill" /\ sid[q] = s)
        BY <1>7, <2>1 DEF InvalidateSession
      <3>2. QED
        BY <1>7, <2>1, <3>1, AgesFacts DEF InvalidateSession, Fresh, requestVars
    <2>2. CASE s # dsid[d]
      BY <1>1, <1>7, <2>2 DEF InvalidateSession, Fresh, rowVars, requestVars
    <2>3. QED
      BY <2>1, <2>2
  <1>8. ASSUME NEW d \in Deletes, InvalidateAWSSession(d) PROVE Quiet(s)'
    BY <1>1, <1>8 DEF InvalidateAWSSession, Fresh, rowVars, requestVars
  <1>9. CASE Tick
    <2>1. Quiet(s)
      BY <1>1, <1>9 DEF Tick, rowVars, deleteVars
    <2>2. ~Fresh(sessionAge'[s])
      BY <1>9, <2>1, AgesFacts DEF Tick
    <2>3. QED
      BY <1>9, <2>1, <2>2 DEF Tick, requestVars, Fresh
  <1>10. CASE Restart
    BY <1>10, AgesFacts DEF Restart, Fresh
  <1>11. QED
    BY <1>2, <1>3, <1>4, <1>5, <1>6, <1>7, <1>8, <1>9, <1>10
       DEF Next, DeleteStep, vars, cacheVars, requestVars, deleteVars

LEMMA ClientStepInv == IInv /\ [Next]_vars => ClientInv'
  <1> SUFFICES ASSUME IInv, [Next]_vars, NEW s \in Sessions, NEW pub \in BOOLEAN,
                      Fresh(clientAge'[CacheKey(s, pub)])
               PROVE  client'[CacheKey(s, pub)] = [session |-> s, public |-> pub]
    BY DEF ClientInv, CacheKey, Fresh
  <1> DEFINE key == CacheKey(s, pub)
             own == [session |-> s, public |-> pub]
  <1> USE DEF IInv, TypeOK
  <1>1. key \in ClientKeys
    BY CacheKeyInjective
  <1>2. Fresh(clientAge[key]) => client[key] = own
    BY DEF ClientInv
  <1>3. CASE \E q \in Requests : SetAWSSession(q)
    <2> PICK q \in Requests : SetAWSSession(q)
      BY <1>3
    <2>1. sid[q] \in Sessions /\ public[q] \in BOOLEAN
      BY DEF SetAWSSession, RequestInv
    <2>2. CASE key = CacheKey(sid[q], public[q])
      <3>1. sid[q] = s /\ public[q] = pub
        BY <2>1, <2>2, CacheKeyInjective
      <3>2. QED
        BY <1>1, <1>2, <3>1 DEF SetAWSSession
    <2>3. CASE key # CacheKey(sid[q], public[q])
      BY <1>1, <1>2, <2>3 DEF SetAWSSession
    <2>4. QED
      BY <2>2, <2>3
  <1>4. CASE \E d \in Deletes : InvalidateAWSSession(d)
    BY <1>1, <1>2, <1>4, AgesFacts DEF InvalidateAWSSession
  <1>5. CASE Tick
    BY <1>1, <1>2, <1>5, AgesFacts DEF Tick
  <1>6. CASE Restart
    BY <1>1, <1>6, AgesFacts DEF Restart
  <1>7. CASE UNCHANGED <<client, clientAge>>
    BY <1>2, <1>7
  <1>8. QED
    BY <1>3, <1>4, <1>5, <1>6, <1>7 DEF Next, vars, cacheVars, RequestStep, DeleteStep,
       CreateSession, Arrive, GetSession, GetSessionByID, SetSession, Authorize,
       GetAWSSession, Respond, AskAgain, DeleteSession, InvalidateSession

LEMMA ClientMatchesStep == IInv /\ [Next]_vars => ClientMatchesSession'
  <1> SUFFICES ASSUME IInv, [Next]_vars, NEW p \in Requests, pc'[p] = "client"
               PROVE  got'[p] = [session |-> sid'[p], public |-> public'[p]]
    BY DEF ClientMatchesSession
  <1> USE DEF IInv, TypeOK
  <1>1. CASE UNCHANGED <<pc[p], sid[p], public[p], got[p]>>
    BY <1>1 DEF ClientMatchesSession
  <1>2. CASE \E pub \in BOOLEAN : GetAWSSession(p, pub)
    <2> PICK pub \in BOOLEAN : GetAWSSession(p, pub)
      BY <1>2
    <2>1. sid[p] \in Sessions /\ Fresh(clientAge[CacheKey(sid[p], pub)])
      BY DEF GetAWSSession, RequestInv
    <2>2. client[CacheKey(sid[p], pub)] = [session |-> sid[p], public |-> pub]
      BY <2>1 DEF ClientInv
    <2>3. got'[p] = client[CacheKey(sid[p], pub)] /\ public'[p] = pub /\ sid' = sid
      BY <2>1 DEF GetAWSSession
    <2>4. QED
      BY <2>2, <2>3
  <1>3. CASE SetAWSSession(p)
    BY <1>3 DEF SetAWSSession, End
  <1>4. CASE \/ \E u \in Users, s \in Sessions : Arrive(p, u, s)
             \/ GetSession(p) \/ GetSessionByID(p) \/ SetSession(p)
             \/ Authorize(p) \/ Respond(p) \/ AskAgain(p) \/ Restart
    BY <1>4 DEF Arrive, GetSession, GetSessionByID, SetSession, Authorize, Respond, AskAgain,
       Restart, Goto, End
  <1>5. CASE \E q \in Requests \ {p} :
                \/ \E u \in Users, s \in Sessions : Arrive(q, u, s)
                \/ RequestStep(q)
    BY <1>1, <1>5 DEF RequestStep, Arrive, GetSession, GetSessionByID, SetSession, Authorize,
       GetAWSSession, SetAWSSession, Respond, AskAgain, Goto, End
  <1>6. CASE UNCHANGED requestVars
    BY <1>1, <1>6 DEF requestVars
  <1>7. QED
    BY <1>2, <1>3, <1>4, <1>5, <1>6 DEF Next, vars, RequestStep, DeleteStep, CreateSession,
       DeleteSession, InvalidateSession, InvalidateAWSSession, Tick

-------------------------------------------------------------------------------

LEMMA InductiveInit == Init => IInv
  <1> SUFFICES ASSUME Init PROVE IInv
    OBVIOUS
  <1>1. TypeOK
    BY TypeInit
  <1>2. ClientInv
    BY AgesFacts, CacheKeyInjective DEF Init, ClientInv
  <1>3. RequestInv /\ DeleteInv /\ CachedInv /\ StaleInv /\ ClientMatchesSession
    BY AgesFacts DEF Init, RequestInv, DeleteInv, CachedInv, StaleInv, ClientMatchesSession,
       HoldsCopy, Served
  <1>4. QED
    BY <1>1, <1>2, <1>3 DEF IInv

\* The strengthened invariant holds in every reachable state.
THEOREM Inductive == Spec => []IInv
  <1>1. IInv /\ [Next]_vars => IInv'
    BY TypeStep, RequestStepInv, DeleteStepInv, CachedStepInv, StaleStepInv, ClientStepInv,
       ClientMatchesStep DEF IInv
  <1>2. QED
    BY InductiveInit, <1>1, PTL DEF Spec

\* Type correctness of the caches, requests and delete handlers.
THEOREM TypeCorrect == Spec => []TypeOK
  BY Inductive, PTL DEF IInv

\* The shared client cache never hands a request another session's client, nor
\* the wrong endpoint's (createSession).
THEOREM ClientsMatch == Spec => []ClientMatchesSession
  BY Inductive, PTL DEF IInv

\* A deleted session stays cached only for the two reasons StaleOnlyWhenOvertaken
\* names (InvalidateAllForSession).
THEOREM StaleOnlyIfOvertaken == Spec => []StaleOnlyWhenOvertaken
  <1>1. IInv => StaleOnlyWhenOvertaken
    BY DEF IInv, StaleInv, StaleOnlyWhenOvertaken
  <1>2. QED
    BY <1>1, Inductive, PTL

-------------------------------------------------------------------------------
(* The refinement.                                                          *)

\* No copy of a deleted session is made where none was left.
LEMMA ReachableShrinks ==
  IInv /\ [Next]_vars =>
    \A s \in Sessions : Deleted(s) /\ Reachable(s)' => Reachable(s)
  <1> SUFFICES ASSUME IInv, [Next]_vars, NEW s \in Sessions, Deleted(s), Reachable(s)'
               PROVE  Reachable(s)
    OBVIOUS
  <1> USE DEF IInv, TypeOK, Reachable, HoldsCopy, Served, Deleted
  <1>1. CASE UNCHANGED <<sessionAge, pc, sid>>
    BY <1>1 DEF Fresh
  <1>2. ASSUME NEW q \in Requests, NEW u \in Users, NEW t \in Sessions, Arrive(q, u, t)
        PROVE  Reachable(s)
    BY <1>2 DEF Arrive, cacheVars, Fresh
  <1>3. ASSUME NEW q \in Requests, RequestStep(q) PROVE Reachable(s)
    <2>1. CASE SetSession(q)
      BY <2>1 DEF SetSession, Goto, Fresh
    <2>2. CASE GetSession(q)
      BY <2>2 DEF GetSession, Goto, cacheVars, Fresh
    <2>3. CASE GetSessionByID(q)
      BY <2>3 DEF GetSessionByID, Goto, End, cacheVars, Fresh
    <2>4. CASE Authorize(q)
      BY <2>4 DEF Authorize, Goto, End, cacheVars, Fresh
    <2>5. CASE \E pub \in BOOLEAN : GetAWSSession(q, pub)
      BY <2>5 DEF GetAWSSession, cacheVars, Fresh
    <2>6. CASE SetAWSSession(q)
      BY <2>6 DEF SetAWSSession, End, Fresh
    <2>7. CASE Respond(q) \/ AskAgain(q)
      BY <2>7 DEF Respond, AskAgain, End, cacheVars, Fresh
    <2>8. QED
      BY <1>3, <2>1, <2>2, <2>3, <2>4, <2>5, <2>6, <2>7 DEF RequestStep
  <1>4. ASSUME NEW d \in Deletes, InvalidateSession(d) PROVE Reachable(s)
    BY <1>4, AgesFacts DEF InvalidateSession, requestVars, Fresh
  <1>5. CASE Tick
    <2>1. Fresh(sessionAge[s])' => Fresh(sessionAge[s])
      BY <1>5, AgesFacts DEF Tick, Fresh
    <2>2. QED
      BY <1>5, <2>1 DEF Tick, requestVars
  <1>6. CASE Restart
    BY <1>6, AgesFacts DEF Restart, Fresh
  <1>7. QED
    BY <1>1, <1>2, <1>3, <1>4, <1>5, <1>6 DEF Next, vars, cacheVars, requestVars,
       DeleteStep, CreateSession, DeleteSession, InvalidateAWSSession

\* A step that touches no row and starts serving no request only lets requests
\* end and deleted sessions fade.
LEMMA SettleStep ==
  ASSUME IInv, IInv', [Next]_vars, UNCHANGED rowVars, servingBar' \subseteq servingBar
  PROVE  Access!Settle
  <1> DEFINE faded == {s \in Sessions : statusBar[s] = "lingering" /\ statusBar'[s] = "gone"}
  <1>1. faded \in SUBSET {s \in Sessions : statusBar[s] = "lingering"}
    OBVIOUS
  <1>2. statusBar' = [s \in Sessions |-> IF s \in faded THEN "gone" ELSE statusBar[s]]
    <2>1. ASSUME NEW s \in Sessions
          PROVE  StatusOf(s)' = IF s \in faded THEN "gone" ELSE StatusOf(s)
      <3>1. Deleted(s) /\ Reachable(s)' => Reachable(s)
        BY ReachableShrinks
      <3>2. (Used(s)' <=> Used(s)) /\ (s \in stored' <=> s \in stored)
        BY DEF rowVars, Used
      <3>3. statusBar[s] = StatusOf(s) /\ statusBar'[s] = StatusOf(s)'
        BY DEF statusBar
      <3>4. QED
        BY <3>1, <3>2, <3>3 DEF StatusOf, Deleted
    <2>2. QED
      BY <2>1 DEF statusBar
  <1>3. ASSUME NEW t \in servingBar' PROVE statusBar'[t[2]] # "gone"
    <2>1. PICK q \in Requests : Served(q)' /\ t = <<q, sid'[q], user'[q]>>
      BY DEF servingBar, Served
    <2>2. sid'[q] \in Sessions /\ Reachable(sid[q])'
      BY <2>1 DEF IInv, RequestInv, Reachable, HoldsCopy, Served
    <2>3. statusBar'[sid'[q]] # "gone"
      BY <2>2 DEF statusBar, StatusOf
    <2>4. QED
      BY <2>1, <2>3
  <1>4. UNCHANGED holderBar
    BY DEF holderBar, rowVars
  <1>5. QED
    BY <1>1, <1>2, <1>3, <1>4 DEF Access!Settle

LEMMA CreateImplements ==
  ASSUME IInv, NEW u \in Users, NEW s \in Sessions, CreateSession(u, s)
  PROVE  Access!Create(s, u)
  <1> USE DEF CreateSession, Used
  <1>1. /\ statusBar[s] = "unused"
        /\ holderBar' = [holderBar EXCEPT ![s] = {u}]
    <2>1. statusBar[s] = "unused"
      BY DEF statusBar, StatusOf
    <2>2. owner \in [Sessions -> Users \cup {NoUser}] /\ u # NoUser
      BY NoUserAssumption DEF IInv, TypeOK
    <2>3. \A t \in Sessions : {owner'[t]} \ {NoUser} = IF t = s THEN {u} ELSE {owner[t]} \ {NoUser}
      BY <2>2
    <2>4. holderBar' = [holderBar EXCEPT ![s] = {u}]
      BY <2>3 DEF holderBar
    <2>5. QED
      BY <2>1, <2>4
  <1>2. \A t \in Sessions : Reachable(t)' <=> Reachable(t)
    BY DEF Reachable, HoldsCopy, Served, cacheVars, requestVars, Fresh
  <1>3. \A t \in Sessions : StatusOf(t)' = IF t = s THEN "stored" ELSE StatusOf(t)
    BY <1>2, NoUserAssumption DEF StatusOf, IInv, TypeOK
  <1>4. statusBar' = [statusBar EXCEPT ![s] = "stored"]
    BY <1>3 DEF statusBar
  <1>5. UNCHANGED servingBar
    BY DEF servingBar, Served, requestVars
  <1>6. QED
    BY <1>1, <1>4, <1>5 DEF Access!Create

LEMMA DeleteImplements ==
  ASSUME IInv, NEW d \in Deletes, NEW u \in Users, NEW s \in Sessions, DeleteSession(d, u, s)
  PROVE  Access!Delete(s)
  <1> USE DEF DeleteSession, Used
  <1>1. statusBar[s] = "stored"
    BY DEF statusBar, StatusOf, IInv, TypeOK
  <1>2. \A t \in Sessions : Reachable(t)' <=> Reachable(t)
    BY DEF Reachable, HoldsCopy, Served, cacheVars, requestVars, Fresh
  <1>3. \A t \in Sessions :
          StatusOf(t)' = IF t = s THEN IF Reachable(s) THEN "lingering" ELSE "gone"
                         ELSE StatusOf(t)
    BY <1>2 DEF StatusOf, IInv, TypeOK
  <1>4. \E left \in {"lingering", "gone"} : statusBar' = [statusBar EXCEPT ![s] = left]
    BY <1>3 DEF statusBar
  <1>5. UNCHANGED <<holderBar, servingBar>>
    BY DEF servingBar, Served, requestVars, holderBar
  <1>6. QED
    BY <1>1, <1>4, <1>5 DEF Access!Delete

LEMMA ServeImplements ==
  ASSUME IInv, [Next]_vars, NEW q \in Requests, Authorize(q), Served(q)'
  PROVE  Access!Serve(q, sid[q], user[q])
  <1> USE DEF Authorize, Served, IInv, TypeOK
  <1>1. /\ pc[q] = "check" /\ owner[sid[q]] = user[q]
        /\ Goto(q, "handle")
    BY DEF End, Goto
  <1>2. sid[q] \in Sessions /\ user[q] \in Users /\ Used(sid[q])
    BY <1>1 DEF RequestInv, HoldsCopy
  <1>3. statusBar[sid[q]] \in {"stored", "lingering"}
    BY <1>1, <1>2 DEF statusBar, StatusOf, Reachable, HoldsCopy
  <1>4. user[q] \in holderBar[sid[q]]
    BY <1>1, <1>2, NoUserAssumption DEF holderBar
  <1>5. servingBar' = servingBar \cup {<<q, sid[q], user[q]>>}
    BY <1>1 DEF Goto, servingBar
  <1>6. \A p \in Requests : HoldsCopy(p)' <=> HoldsCopy(p)
    BY <1>1 DEF HoldsCopy, Goto
  <1>7. \A s \in Sessions : Reachable(s)' <=> Reachable(s)
    BY <1>1, <1>6 DEF Reachable, Goto, cacheVars, Fresh
  <1>8. UNCHANGED <<statusBar, holderBar>>
    BY <1>7 DEF statusBar, StatusOf, holderBar, rowVars, Used
  <1>9. QED
    BY <1>3, <1>4, <1>5, <1>8 DEF Access!Serve

\* Every step of the caches is a step of SessionAccess.
LEMMA StepImplements ==
  IInv /\ IInv' /\ [Next]_vars => [Access!Next]_(Access!vars)
  <1> SUFFICES ASSUME IInv, IInv', [Next]_vars PROVE [Access!Next]_(Access!vars)
    OBVIOUS
  <1>1. ASSUME NEW u \in Users, NEW s \in Sessions, CreateSession(u, s) PROVE Access!Next
    BY <1>1, CreateImplements DEF Access!Next
  <1>2. ASSUME NEW d \in Deletes, NEW u \in Users, NEW s \in Sessions, DeleteSession(d, u, s)
        PROVE  Access!Next
    BY <1>2, DeleteImplements DEF Access!Next
  <1>3. ASSUME NEW q \in Requests, Authorize(q), Served(q)' PROVE Access!Next
    <2>1. sid[q] \in Sessions /\ user[q] \in Users
      BY <1>3 DEF Authorize, IInv, RequestInv
    <2>2. QED
      BY <1>3, <2>1, ServeImplements DEF Access!Next
  <1>4. ASSUME UNCHANGED rowVars,
               \A q \in Requests : Served(q)' => Served(q) /\ UNCHANGED <<sid[q], user[q]>>
        PROVE  Access!Next
    <2>1. servingBar' \subseteq servingBar
      BY <1>4 DEF servingBar, Served
    <2>2. QED
      BY <1>4, <2>1, SettleStep DEF Access!Next
  <1>5. ASSUME NEW q \in Requests, Arrive(q, user'[q], sid'[q]) \/ RequestStep(q),
               ~(Authorize(q) /\ Served(q)')
        PROVE  Access!Next
    <2> USE DEF IInv, TypeOK, Served
    <2>1. UNCHANGED rowVars
      BY <1>5 DEF RequestStep, Arrive, GetSession, GetSessionByID, SetSession, Authorize,
         GetAWSSession, SetAWSSession, Respond, AskAgain
    <2>2. ASSUME NEW p \in Requests, p # q, Served(p)'
          PROVE  Served(p) /\ UNCHANGED <<sid[p], user[p]>>
      BY <1>5, <2>2 DEF RequestStep, Arrive, GetSession, GetSessionByID, SetSession, Authorize,
         GetAWSSession, SetAWSSession, Respond, AskAgain, Goto, End
    <2>3. Served(q)' => Served(q) /\ UNCHANGED <<sid[q], user[q]>>
      BY <1>5 DEF RequestStep, Arrive, GetSession, GetSessionByID, SetSession, Authorize,
         GetAWSSession, SetAWSSession, Respond, AskAgain, Goto, End
    <2>4. QED
      BY <1>4, <2>1, <2>2, <2>3
  <1>6. ASSUME NEW q \in Requests, NEW u \in Users, NEW s \in Sessions, Arrive(q, u, s)
        PROVE  Access!Next
    <2>1. Arrive(q, user'[q], sid'[q]) /\ ~(Authorize(q) /\ Served(q)')
      BY <1>6 DEF Arrive, Authorize, IInv, TypeOK
    <2>2. QED
      BY <2>1, <1>5
  <1>7. CASE Restart
    BY <1>4, <1>7 DEF Restart, Served
  <1>8. CASE UNCHANGED <<rowVars, requestVars>>
    BY <1>4, <1>8 DEF requestVars, Served
  <1>9. QED
    BY <1>1, <1>2, <1>3, <1>5, <1>6, <1>7, <1>8 DEF Next, vars, DeleteStep, Tick,
       InvalidateSession, InvalidateAWSSession

\* SessionCache implements SessionAccess: a session is served to its owner only,
\* and never again once the last copy of its deleted row is gone.
THEOREM Refinement == Spec => ImplementsAccess
  <1>1. Init => Access!Init
    BY DEF Init, Access!Init, statusBar, StatusOf, holderBar, servingBar, Used, Served
  <1>2. QED
    BY <1>1, Inductive, StepImplements, PTL DEF Spec, ImplementsAccess, Access!Spec

===============================================================================
