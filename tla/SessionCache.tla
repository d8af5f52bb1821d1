----------------------------- MODULE SessionCache -----------------------------
(***************************************************************************)
(* The two in-process caches of cache/cache.go and everything that reads,  *)
(* fills and invalidates them: the SessionMiddleware of a bucket request,  *)
(* the storage client it builds (aws/config.aws.go), and the handlers that *)
(* create and delete a stored session.  Every database call and every      *)
(* cache call is a step of its own, because nothing in the code holds a    *)
(* lock across two of them.                                                *)
(*                                                                         *)
(* Session rows are written once and never updated, so a copy of a row is  *)
(* known by its id alone.  An absent cache entry and an expired one read   *)
(* alike, so both have age Expired; ages count ticks of the clock.         *)
(***************************************************************************)
EXTENDS Integers

CONSTANTS
  Users,      \* account ids
  NoUser,     \* the owner of a session id not yet used
  Sessions,   \* session ids the sessions table hands out, one per insert
  Requests,   \* bucket requests in flight
  Deletes,    \* DELETE /session/{id} handlers in flight
  TTL         \* sessionTTL and awsSessionTTL, in ticks

ASSUME NoUserAssumption == NoUser \notin Users
ASSUME SessionsAssumption == Sessions \subseteq Nat \ {0}
ASSUME TTLAssumption == TTL \in Nat

VARIABLES
  stored,      \* ids with a row in the sessions table
  owner,       \* user_id each id was inserted with, in the row and all its copies
  sessionAge,  \* sessionCache: age of the entry under each id
  client,      \* awsSessionCache: the client under each key
  clientAge,   \* awsSessionCache: its age
  pc,          \* where each request is
  user,        \* the authenticated user of each request
  sid,         \* the {sessionId} of its path
  public,      \* which client it asked createSession for
  got,         \* the client it was given
  dpc,         \* where each delete handler is
  dsid,        \* the session it deletes
  overtaken    \* history: deleted sessions the invalidation may have missed

rowVars == <<stored, owner>>
cacheVars == <<sessionAge, client, clientAge>>
requestVars == <<pc, user, sid, public, got>>
deleteVars == <<dpc, dsid>>
vars == <<rowVars, cacheVars, requestVars, deleteVars, overtaken>>

Expired == TTL + 1
Ages == 0 .. Expired
Fresh(age) == age <= TTL

NoClient == [session |-> 0, public |-> FALSE]
Clients == [session : Sessions, public : BOOLEAN]

\* The session claims' id, negated for the client of presigned links.
CacheKeyShared(s, pub) == s
CacheKey(s, pub) == IF pub THEN -s ELSE s
ClientKeys == Sessions \cup {-s : s \in Sessions}

Used(s) == owner[s] # NoUser
Deleted(s) == Used(s) /\ s \notin stored
\* A delete handler removed the row and has not invalidated the session cache.
Deleting(s) == \E d \in Deletes : dpc[d] = "invalidate" /\ dsid[d] = s
\* Requests whose middleware passed the claims on to the handler.
Served(q) == pc[q] \in {"handle", "build", "client"}
HoldsCopy(q) == Served(q) \/ pc[q] \in {"fill", "check"}

Init ==
  /\ stored = {}
  /\ owner = [s \in Sessions |-> NoUser]
  /\ sessionAge = [s \in Sessions |-> Expired]
  /\ client = [k \in ClientKeys |-> NoClient]
  /\ clientAge = [k \in ClientKeys |-> Expired]
  /\ pc = [q \in Requests |-> "idle"]
  /\ user = [q \in Requests |-> NoUser]
  /\ sid = [q \in Requests |-> 0]
  /\ public = [q \in Requests |-> FALSE]
  /\ got = [q \in Requests |-> NoClient]
  /\ dpc = [d \in Deletes |-> "idle"]
  /\ dsid = [d \in Deletes |-> 0]
  /\ overtaken = {}

-------------------------------------------------------------------------------
(* Creating a session (HandleCreateSession).                                *)

CreateUnowned(u, s) ==
  /\ ~Used(s)
  /\ stored' = stored \cup {s}
  /\ UNCHANGED <<owner, cacheVars, requestVars, deleteVars, overtaken>>

\* The insert; the table hands out an id no row had before.
CreateSession(u, s) ==
  /\ ~Used(s)
  /\ stored' = stored \cup {s}
  /\ owner' = [owner EXCEPT ![s] = u]
  /\ UNCHANGED <<cacheVars, requestVars, deleteVars, overtaken>>

-------------------------------------------------------------------------------
(* A bucket request (SessionMiddleware, then the handler's createSession).  *)

Goto(q, label) ==
  /\ pc' = [pc EXCEPT ![q] = label]
  /\ UNCHANGED <<user, sid, public, got>>

\* The request is answered, with an error or a result.
End(q) ==
  /\ pc' = [pc EXCEPT ![q] = "idle"]
  /\ user' = [user EXCEPT ![q] = NoUser]
  /\ sid' = [sid EXCEPT ![q] = 0]
  /\ public' = [public EXCEPT ![q] = FALSE]
  /\ got' = [got EXCEPT ![q] = NoClient]

\* An authenticated request for /{sessionId}/...; the id need not exist.
Arrive(q, u, s) ==
  /\ pc[q] = "idle"
  /\ pc' = [pc EXCEPT ![q] = "lookup"]
  /\ user' = [user EXCEPT ![q] = u]
  /\ sid' = [sid EXCEPT ![q] = s]
  /\ UNCHANGED <<public, got, rowVars, cacheVars, deleteVars, overtaken>>

GetSessionSliding(q) ==
  /\ pc[q] = "lookup"
  /\ IF Fresh(sessionAge[sid[q]])
       THEN Goto(q, "check") /\ sessionAge' = [sessionAge EXCEPT ![sid[q]] = 0]
       ELSE Goto(q, "miss") /\ UNCHANGED sessionAge
  /\ UNCHANGED <<client, clientAge, rowVars, deleteVars, overtaken>>

\* cache.GetSession: a hit unless the entry is absent or past its expiry.
GetSession(q) ==
  /\ pc[q] = "lookup"
  /\ Goto(q, IF Fresh(sessionAge[sid[q]]) THEN "check" ELSE "miss")
  /\ UNCHANGED <<rowVars, cacheVars, deleteVars, overtaken>>

GetAnySessionByID(q) ==
  /\ pc[q] = "miss"
  /\ \/ Used(sid[q]) /\ Goto(q, "fill")
     \/ End(q)
  /\ UNCHANGED <<rowVars, cacheVars, deleteVars, overtaken>>

\* query.GetSessionByID: the row, or 404 for no row and for any query error.
GetSessionByID(q) ==
  /\ pc[q] = "miss"
  /\ \/ sid[q] \in stored /\ Goto(q, "fill")
     \/ End(q)
  /\ UNCHANGED <<rowVars, cacheVars, deleteVars, overtaken>>

\* cache.SetSession, before the owner of the session is looked at.
SetSession(q) ==
  /\ pc[q] = "fill"
  /\ sessionAge' = [sessionAge EXCEPT ![sid[q]] = 0]
  /\ Goto(q, "check")
  /\ UNCHANGED <<client, clientAge, rowVars, deleteVars, overtaken>>

\* The owner check (403) and the decryption of the keys (500), then the claims.
Authorize(q) ==
  /\ pc[q] = "check"
  /\ \/ owner[sid[q]] = user[q] /\ Goto(q, "handle")
     \/ End(q)
  /\ UNCHANGED <<rowVars, cacheVars, deleteVars, overtaken>>

\* createSession up to cache.GetAWSSession, for the internal or public client.
GetAWSSession(q, pub) ==
  LET key == CacheKey(sid[q], pub) IN
  /\ pc[q] = "handle"
  /\ owner[sid[q]] = user[q]
  /\ public' = [public EXCEPT ![q] = pub]
  /\ IF Fresh(clientAge[key])
       THEN /\ pc' = [pc EXCEPT ![q] = "client"]
            /\ got' = [got EXCEPT ![q] = client[key]]
       ELSE /\ pc' = [pc EXCEPT ![q] = "build"]
            /\ UNCHANGED got
  /\ UNCHANGED <<user, sid, rowVars, cacheVars, deleteVars, overtaken>>

\* The client is built from the claims and cached, or building it fails.
SetAWSSession(q) ==
  LET built == [session |-> sid[q], public |-> public[q]]
      key == CacheKey(sid[q], public[q])
  IN
  /\ pc[q] = "build"
  /\ \/ /\ pc' = [pc EXCEPT ![q] = "client"]
        /\ got' = [got EXCEPT ![q] = built]
        /\ client' = [client EXCEPT ![key] = built]
        /\ clientAge' = [clientAge EXCEPT ![key] = 0]
        /\ UNCHANGED <<user, sid, public>>
     \/ End(q) /\ UNCHANGED <<client, clientAge>>
  /\ UNCHANGED <<sessionAge, rowVars, deleteVars, overtaken>>

\* The handler answers.
Respond(q) ==
  /\ pc[q] \in {"handle", "client"}
  /\ End(q)
  /\ UNCHANGED <<rowVars, cacheVars, deleteVars, overtaken>>

\* It has used its client and asks for another, as for each key of a batch.
AskAgain(q) ==
  /\ pc[q] = "client"
  /\ pc' = [pc EXCEPT ![q] = "handle"]
  /\ public' = [public EXCEPT ![q] = FALSE]
  /\ got' = [got EXCEPT ![q] = NoClient]
  /\ UNCHANGED <<user, sid, rowVars, cacheVars, deleteVars, overtaken>>

-------------------------------------------------------------------------------
(* Deleting a session (HandleDeleteSession, InvalidateAllForSession).       *)

\* query.DeleteSession, scoped to the owner.  When the row is gone and the
\* database's answer is lost, the handler answers 500 and invalidates nothing.
DeleteSession(d, u, s) ==
  /\ dpc[d] = "idle"
  /\ s \in stored /\ owner[s] = u
  /\ stored' = stored \ {s}
  /\ \/ /\ dpc' = [dpc EXCEPT ![d] = "invalidate"]
        /\ dsid' = [dsid EXCEPT ![d] = s]
        /\ UNCHANGED overtaken
     \/ /\ overtaken' = overtaken \cup {s}
        /\ UNCHANGED deleteVars
  /\ UNCHANGED <<owner, cacheVars, requestVars>>

InvalidateNothing(d) ==
  /\ dpc[d] = "invalidate"
  /\ dpc' = [dpc EXCEPT ![d] = "invalidateAWS"]
  /\ overtaken' = IF \E q \in Requests : pc[q] = "fill" /\ sid[q] = dsid[d]
                    THEN overtaken \cup {dsid[d]} ELSE overtaken
  /\ UNCHANGED <<dsid, rowVars, cacheVars, requestVars>>

\* cache.InvalidateSession; a request that has read the row but not yet cached
\* it will undo this.
InvalidateSession(d) ==
  /\ dpc[d] = "invalidate"
  /\ sessionAge' = [sessionAge EXCEPT ![dsid[d]] = Expired]
  /\ dpc' = [dpc EXCEPT ![d] = "invalidateAWS"]
  /\ overtaken' = IF \E q \in Requests : pc[q] = "fill" /\ sid[q] = dsid[d]
                    THEN overtaken \cup {dsid[d]} ELSE overtaken
  /\ UNCHANGED <<dsid, client, clientAge, rowVars, requestVars>>

\* cache.InvalidateAWSSession under the id alone, then the success answer.
InvalidateAWSSession(d) ==
  /\ dpc[d] = "invalidateAWS"
  /\ client' = [client EXCEPT ![dsid[d]] = NoClient]
  /\ clientAge' = [clientAge EXCEPT ![dsid[d]] = Expired]
  /\ dpc' = [dpc EXCEPT ![d] = "idle"]
  /\ dsid' = [dsid EXCEPT ![d] = 0]
  /\ UNCHANGED <<sessionAge, overtaken, rowVars, requestVars>>

-------------------------------------------------------------------------------
(* Time and restarts.                                                       *)

Older(age) == IF Fresh(age) THEN age + 1 ELSE Expired

TickSessionsOnly ==
  /\ sessionAge' = [s \in Sessions |-> Older(sessionAge[s])]
  /\ UNCHANGED <<client, clientAge, rowVars, requestVars, deleteVars, overtaken>>

\* Time passes: entries age, and past TTL they are as good as absent.
Tick ==
  /\ sessionAge' = [s \in Sessions |-> Older(sessionAge[s])]
  /\ clientAge' = [k \in ClientKeys |-> Older(clientAge[k])]
  /\ client' = [k \in ClientKeys |->
                  IF Fresh(clientAge[k] + 1) THEN client[k] ELSE NoClient]
  /\ UNCHANGED <<rowVars, requestVars, deleteVars, overtaken>>

\* The process stops and starts again: only the database survives.
Restart ==
  /\ sessionAge' = [s \in Sessions |-> Expired]
  /\ client' = [k \in ClientKeys |-> NoClient]
  /\ clientAge' = [k \in ClientKeys |-> Expired]
  /\ pc' = [q \in Requests |-> "idle"]
  /\ user' = [q \in Requests |-> NoUser]
  /\ sid' = [q \in Requests |-> 0]
  /\ public' = [q \in Requests |-> FALSE]
  /\ got' = [q \in Requests |-> NoClient]
  /\ dpc' = [d \in Deletes |-> "idle"]
  /\ dsid' = [d \in Deletes |-> 0]
  /\ UNCHANGED <<rowVars, overtaken>>

RequestStep(q) ==
  \/ GetSession(q)
  \/ GetSessionByID(q)
  \/ SetSession(q)
  \/ Authorize(q)
  \/ \E pub \in BOOLEAN : GetAWSSession(q, pub)
  \/ SetAWSSession(q)
  \/ Respond(q)
  \/ AskAgain(q)

DeleteStep(d) == InvalidateSession(d) \/ InvalidateAWSSession(d)

Next ==
  \/ \E u \in Users, s \in Sessions : CreateSession(u, s)
  \/ \E q \in Requests, u \in Users, s \in Sessions : Arrive(q, u, s)
  \/ \E q \in Requests : RequestStep(q)
  \/ \E d \in Deletes, u \in Users, s \in Sessions : DeleteSession(d, u, s)
  \/ \E d \in Deletes : DeleteStep(d)
  \/ Tick
  \/ Restart

Spec == Init /\ [][Next]_vars

\* The clock runs, a handler that can go on goes on, and one that can answer
\* time and again answers: a batch has so many keys and no more.
Fairness ==
  /\ WF_vars(Tick)
  /\ \A q \in Requests : WF_vars(RequestStep(q)) /\ SF_vars(Respond(q))
  /\ \A d \in Deletes : WF_vars(DeleteStep(d))

FairSpec == Spec /\ Fairness

-------------------------------------------------------------------------------
(* Properties.                                                              *)

\* Every variable has its type; a stored row and a request's session have an owner.
TypeOK ==
  /\ stored \subseteq {s \in Sessions : Used(s)}
  /\ owner \in [Sessions -> Users \cup {NoUser}]
  /\ sessionAge \in [Sessions -> Ages]
  /\ client \in [ClientKeys -> Clients \cup {NoClient}]
  /\ clientAge \in [ClientKeys -> Ages]
  /\ pc \in [Requests -> {"idle", "lookup", "miss", "fill", "check",
                          "handle", "build", "client"}]
  /\ user \in [Requests -> Users \cup {NoUser}]
  /\ sid \in [Requests -> Sessions \cup {0}]
  /\ public \in [Requests -> BOOLEAN]
  /\ got \in [Requests -> Clients \cup {NoClient}]
  /\ dpc \in [Deletes -> {"idle", "invalidate", "invalidateAWS"}]
  /\ dsid \in [Deletes -> Sessions \cup {0}]
  /\ overtaken \subseteq {s \in Sessions : Used(s)}

\* The client a handler is given was built from the claims of its own session
\* and for the endpoint it asked for, although internal and public clients of
\* every session share one map keyed by the id and the negated id.
ClientMatchesSession ==
  \A q \in Requests :
    pc[q] = "client" => got[q] = [session |-> sid[q], public |-> public[q]]

\* A deleted session is in the session cache only while its delete handler has
\* yet to invalidate it, or when the invalidation could not help: a request had
\* read the row and cached it afterwards, or the database's answer was lost.
StaleOnlyWhenOvertaken ==
  \A s \in Sessions :
    Deleted(s) /\ Fresh(sessionAge[s]) => Deleting(s) \/ s \in overtaken

\* Whatever the interleaving, a deleted session is eventually out of the session
\* cache for good: entries expire TTL after they are filled, and reading one
\* does not renew it.
DeletedSessionFades ==
  \A s \in Sessions : Deleted(s) ~> [](~Fresh(sessionAge[s]))

\* So are its clients, the one for presigned links included, whose key no
\* deletion invalidates: with the last copy of the row the last handler that
\* could build one is gone, and those built by then expire in their turn.
DeletedClientsFade ==
  \A s \in Sessions :
    Deleted(s) ~> [](\A pub \in BOOLEAN : ~Fresh(clientAge[CacheKey(s, pub)]))

-------------------------------------------------------------------------------
(* What the caches implement.                                               *)

\* Something other than the row still vouches for the session.
Reachable(s) ==
  \/ Fresh(sessionAge[s])
  \/ \E q \in Requests : HoldsCopy(q) /\ sid[q] = s

StatusOf(s) ==
  IF ~Used(s) THEN "unused"
  ELSE IF s \in stored THEN "stored"
  ELSE IF Reachable(s) THEN "lingering" ELSE "gone"

statusBar == [s \in Sessions |-> StatusOf(s)]
holderBar == [s \in Sessions |-> {owner[s]} \ {NoUser}]
servingBar == {<<q, sid[q], user[q]>> : q \in {r \in Requests : Served(r)}}

Access == INSTANCE SessionAccess WITH
  status <- statusBar, holder <- holderBar, serving <- servingBar

\* The caches keep the promise of SessionAccess: a deleted session is served, if
\* at all, until the last copy of its row is gone, and never again after that.
ImplementsAccess == Access!Spec
===============================================================================
