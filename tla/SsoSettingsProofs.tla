--------------------------- MODULE SsoSettingsProofs ---------------------------
(***************************************************************************)
(* The invariants of SsoSettings, for any number of saves, requests and    *)
(* events.  The manager and the sink share only the table, so each has an  *)
(* invariant of its own.                                                   *)
(***************************************************************************)
EXTENDS SsoSettings, SequenceTheorems, TLAPS

Saved == Config(settings)[PostLoginURL]
Pending(q) == pc[q] \in {"load", "store"}

\* Whatever is not the saved settings' has a reload to come that will replace it.
ManagerInv ==
  /\ \A p \in Reloaders :
       pc[p] = "store" /\ p \notin missed =>
         url[p] = Saved \/ \E q \in Reloaders \ {p} : Pending(q)
  /\ current # None /\ ~doubted =>
       current = Saved \/ \E q \in Reloaders : Pending(q)

SinkInv ==
  /\ \A e \in Events : pc[e] = "report" => got[e] # 0
  /\ ReportedWithOwn /\ ReplacedClosedOnce

SaverStep(h) == Receive(h) \/ EncryptFault(h) \/ \E k \in Keys : SetSetting(h, k)
ReloadStep(p) == LoadURL(p) \/ LoadFault(p) \/ Store(p)
EventStep(e) == Succeed(e) \/ LoadClient(e) \/ Obtain(e) \/ Report(e)

Made == [client : (Values \ {Unset}) \X (Values \ {Unset}), closed : Nat]

-------------------------------------------------------------------------------
LEMMA StepCases ==
  ASSUME [Next]_vars
  PROVE  \/ \E h \in Savers : SaverStep(h)
         \/ \E r \in Requests : Need(r)
         \/ \E p \in Reloaders : ReloadStep(p)
         \/ \E e \in Events : EventStep(e)
         \/ Restart
         \/ UNCHANGED vars
BY DEF Next, SaverStep, ReloadStep, EventStep

\* Only the last key counts for the manager.
LEMMA SavedURL ==
  ASSUME settings \in [Keys -> Values]
  PROVE  Saved = IF settings[PostLoginURL] = Unset THEN Env ELSE settings[PostLoginURL]
BY DEF Saved, Config, FromEnv, Keys, PostLoginURL

LEMMA ConfigType ==
  ASSUME NEW rows \in [Keys -> Values]
  PROVE  /\ Config(rows) \in [Keys -> Values] /\ FromEnv \in [Keys -> Values]
         /\ Client(Config(rows)) \in Values \X Values /\ Client(FromEnv) \in Values \X Values
         /\ NoClient \in Values \X Values
<1>1. Config(rows) \in [Keys -> Values] /\ FromEnv \in [Keys -> Values]
  BY DEF Config, FromEnv, Values, Keys, PostLoginURL
<1>. QED
  BY <1>1 DEF Client, NoClient, Values, Keys, ClientID, ClientSecret

LEMMA ClosedOnceMore ==
  ASSUME NEW r \in Made
  PROVE  LET old == [r EXCEPT !.closed = @ + 1]
         IN  old \in Made /\ old.client = r.client /\ old.closed = r.closed + 1
<1>1. PICK c \in (Values \ {Unset}) \X (Values \ {Unset}), n \in Nat :
        r = [client |-> c, closed |-> n]
  BY DEF Made
<1>. QED
  BY <1>1 DEF Made

\* Replacing the reporter: one more, made for the client; the others only closed.
LEMMA Replaced ==
  ASSUME built \in Seq(Made), NEW c \in (Values \ {Unset}) \X (Values \ {Unset})
  PROVE  LET new == WithNew(Closed, c)
         IN  /\ new \in Seq(Made) /\ Len(new) = Len(built) + 1
             /\ \A i \in 1 .. Len(built) :
                  /\ new[i].client = built[i].client
                  /\ new[i].closed = IF i = Reporter THEN built[i].closed + 1
                                                     ELSE built[i].closed
             /\ new[Len(built) + 1] = [client |-> c, closed |-> 0]
<1>1. Len(built) \in Nat /\ \A i \in 1 .. Len(built) : built[i] \in Made
  BY ElementOfSeq, LenProperties
<1>2. [client |-> c, closed |-> 0] \in Made
  BY DEF Made
<1>3. CASE Reporter = 0
  <2>1. Closed = built
    BY <1>3 DEF Closed
  <2>. QED
    BY <1>1, <1>3, <2>1, <1>2, AppendProperties DEF WithNew, Reporter
<1>4. CASE Reporter # 0
  <2> DEFINE old == [built[Reporter] EXCEPT !.closed = @ + 1]
  <2>1. Reporter \in 1 .. Len(built)
    BY <1>1, <1>4 DEF Reporter
  <2>2. old \in Made /\ old.client = built[Reporter].client
        /\ old.closed = built[Reporter].closed + 1
    <3>1. built[Reporter] \in Made
      BY <1>1, <2>1
    <3>. QED
      BY <3>1, ClosedOnceMore
  <2>3. Closed = [built EXCEPT ![Reporter] = old]
    BY <1>4 DEF Closed
  <2> HIDE DEF old
  <2>4. /\ Closed \in Seq(Made) /\ Len(Closed) = Len(built)
        /\ \A i \in 1 .. Len(built) : Closed[i] = IF i = Reporter THEN old ELSE built[i]
    BY <2>1, <2>2, <2>3, ExceptSeq
  <2>. QED
    BY <1>1, <1>2, <2>2, <2>4, AppendProperties DEF WithNew
<1>. QED
  BY <1>3, <1>4

\* What activitySink gives an event, and what it leaves behind.
LEMMA ObtainCases ==
  ASSUME TypeOK, NEW e \in Events, Obtain(e)
  PROVE  \/ /\ pc' = [pc EXCEPT ![e] = "done"]
            /\ client' = [client EXCEPT ![e] = NoClient] /\ UNCHANGED <<built, got>>
         \/ /\ pc' = [pc EXCEPT ![e] = "report"] /\ UNCHANGED <<built, client>>
            /\ Reporter # 0 /\ built[Reporter].client = client[e]
            /\ got' = [got EXCEPT ![e] = Reporter]
         \/ /\ pc' = [pc EXCEPT ![e] = "report"] /\ UNCHANGED client
            /\ client[e] \in (Values \ {Unset}) \X (Values \ {Unset})
            /\ built' = WithNew(Closed, client[e])
            /\ got' = [got EXCEPT ![e] = Len(built')]
<1>1. CASE ~Usable(client[e])
  BY <1>1 DEF Obtain, ObtainWith
<1>2. CASE Usable(client[e]) /\ IsFresh(e)
  BY <1>2 DEF Obtain, ObtainWith, IsFresh, Reporter
<1>3. CASE Usable(client[e]) /\ ~IsFresh(e)
  <2>1. client[e] \in (Values \ {Unset}) \X (Values \ {Unset})
    BY <1>3 DEF TypeOK, Usable
  <2>. QED
    BY <1>3, <2>1 DEF Obtain, ObtainWith
<1>. QED
  BY <1>1, <1>2, <1>3

-------------------------------------------------------------------------------
\* What the variables are set to when the process starts.
LEMMA StartTypes ==
  /\ [k \in Keys |-> Unset] \in [Keys -> Values]
  /\ [p \in Processes |-> "idle"] \in
       [Processes -> {"idle", "saving", "load", "store", "obtain", "report", "done"}]
  /\ [h \in Savers |-> {}] \in [Savers -> SUBSET Keys]
  /\ [p \in Reloaders |-> Unset] \in [Reloaders -> Values]
  /\ [e \in Events |-> NoClient] \in [Events -> Values \X Values]
  /\ [e \in Events |-> 0] \in [Events -> 0 .. 0]
BY DEF Values, NoClient

LEMMA TypeInit == Init => TypeOK
<1> SUFFICES ASSUME Init PROVE TypeOK
  OBVIOUS
<1>1. built \in Seq(Made) /\ Len(built) = 0
  BY EmptySeq DEF Init
<1>. QED
  BY <1>1, StartTypes DEF Init, TypeOK, Made

LEMMA TypeStep == TypeOK /\ [Next]_vars => TypeOK'
<1> SUFFICES ASSUME TypeOK, [Next]_vars PROVE TypeOK'
  OBVIOUS
<1> USE DEF Processes, Reloaders
<1>0. Len(built) \in Nat
  BY LenProperties DEF TypeOK
<1>1. ASSUME NEW h \in Savers, SaverStep(h) PROVE TypeOK'
  <2>1. CASE Receive(h)
    BY <2>1 DEF TypeOK, Receive, memory, loaded, history
  <2>2. CASE EncryptFault(h)
    BY <2>2 DEF TypeOK, EncryptFault, memory, loaded, history
  <2>3. ASSUME NEW k \in Keys, SetSetting(h, k) PROVE TypeOK'
    <3>1. settings' \in [Keys -> Values]
      BY <2>3 DEF TypeOK, SetSetting, Values
    <3>. QED
      BY <2>3, <3>1 DEF TypeOK, SetSetting, memory, loaded, history
  <2>. QED
    BY <1>1, <2>1, <2>2, <2>3 DEF SaverStep
<1>2. ASSUME NEW r \in Requests, Need(r) PROVE TypeOK'
  BY <1>2 DEF TypeOK, Need, memory, loaded, history
<1>3. ASSUME NEW p \in Reloaders, ReloadStep(p) PROVE TypeOK'
  <2>1. Config(settings)[PostLoginURL] \in Values /\ FromEnv[PostLoginURL] \in Values
    <3>1. PostLoginURL \in Keys /\ settings \in [Keys -> Values]
      BY DEF TypeOK, Keys, PostLoginURL
    <3>. QED
      BY <3>1, ConfigType
  <2>2. CASE LoadURL(p)
    BY <2>1, <2>2 DEF TypeOK, LoadURL, memory, history
  <2>3. CASE LoadFault(p)
    BY <2>1, <2>3 DEF TypeOK, LoadFault, memory
  <2>4. CASE Store(p)
    BY <2>4 DEF TypeOK, Store, Values
  <2>. QED
    BY <1>3, <2>2, <2>3, <2>4 DEF ReloadStep
<1>4. ASSUME NEW e \in Events, EventStep(e) PROVE TypeOK'
  <2>1. CASE Succeed(e)
    BY <2>1 DEF TypeOK, Succeed, memory, loaded, history
  <2>2. CASE LoadClient(e)
    <3>1. client' \in [Events -> Values \X Values]
      <4>1. /\ Client(Config(settings)) \in Values \X Values
            /\ Client(FromEnv) \in Values \X Values /\ NoClient \in Values \X Values
        BY ConfigType DEF TypeOK
      <4>. QED
        BY <2>2, <4>1 DEF TypeOK, LoadClient
    <3>. QED
      BY <2>2, <3>1 DEF TypeOK, LoadClient, memory, history
  <2>3. CASE Obtain(e)
    <3>1. pc' \in [Processes -> {"idle", "saving", "load", "store", "obtain", "report", "done"}]
          /\ UNCHANGED <<settings, current, todo, url, history>>
      BY <2>3 DEF TypeOK, Obtain, ObtainWith
    <3>2. /\ client' \in [Events -> Values \X Values] /\ built' \in Seq(Made)
          /\ got' \in [Events -> 0 .. Len(built')]
      <4>1. NoClient \in Values \X Values
        BY DEF NoClient, Values
      <4>2. CASE UNCHANGED built
        <5>1. \/ client' = [client EXCEPT ![e] = NoClient] /\ UNCHANGED got
              \/ UNCHANGED client /\ got' = [got EXCEPT ![e] = Len(built)]
          BY <2>3, <4>2, ObtainCases DEF Reporter
        <5>2. got' \in [Events -> 0 .. Len(built')]
          <6>1. Len(built) \in 0 .. Len(built) /\ Len(built') = Len(built)
            BY <1>0, <4>2
          <6>2. got \in [Events -> 0 .. Len(built)]
            BY DEF TypeOK
          <6>. QED
            BY <5>1, <6>1, <6>2
        <5>3. client' \in [Events -> Values \X Values]
          BY <4>1, <5>1 DEF TypeOK
        <5>. QED
          BY <4>2, <5>2, <5>3 DEF TypeOK, Made
      <4>3. CASE client[e] \in (Values \ {Unset}) \X (Values \ {Unset})
                 /\ built' = WithNew(Closed, client[e]) /\ UNCHANGED client
                 /\ got' = [got EXCEPT ![e] = Len(built')]
        <5>1. built' \in Seq(Made) /\ Len(built') = Len(built) + 1
          BY <4>3, Replaced DEF TypeOK, Made
        <5>. QED
          BY <1>0, <4>3, <5>1 DEF TypeOK
      <4>. QED
        BY <2>3, <4>2, <4>3, ObtainCases
    <3>. QED
      BY <3>1, <3>2 DEF TypeOK, history, Made
  <2>4. CASE Report(e)
    BY <1>0, <2>4 DEF TypeOK, Report, NoClient, Values, memory, history
  <2>. QED
    BY <1>4, <2>1, <2>2, <2>3, <2>4 DEF EventStep
<1>5. CASE Restart
  <2>1. built' \in Seq(Made) /\ Len(built') = 0
    BY <1>5, EmptySeq DEF Restart
  <2>. QED
    BY <1>5, <2>1, StartTypes DEF Restart, TypeOK, Made
<1>6. CASE UNCHANGED vars
  BY <1>6 DEF TypeOK, vars, memory, loaded, history
<1>. QED
  BY <1>1, <1>2, <1>3, <1>4, <1>5, <1>6, StepCases

\* The settings, the manager and the sink stay in their types, and no reporter is
\* made without an id and a secret.
THEOREM SettingsTypeCorrect == Spec => []TypeOK
<1>. QED
  BY TypeInit, TypeStep, PTL DEF Spec

-------------------------------------------------------------------------------
(* The manager.                                                             *)

\* A save touches what the manager keeps only with its last key, after which it
\* goes on to reload.
LEMMA SaverReloads ==
  ASSUME TypeOK, NEW h \in Savers, NEW k \in Keys, SetSetting(h, k), Saved' # Saved
  PROVE  pc'[h] = "load"
<1>1. settings' \in [Keys -> Values]
  BY DEF TypeOK, SetSetting, Values
<1>2. k = PostLoginURL
  <2>1. settings'[PostLoginURL] # settings[PostLoginURL]
    <3>1. Saved = IF settings[PostLoginURL] = Unset THEN Env ELSE settings[PostLoginURL]
      BY SavedURL DEF TypeOK
    <3>2. Saved' = IF settings'[PostLoginURL] = Unset THEN Env ELSE settings'[PostLoginURL]
      BY <1>1 DEF Saved, Config, FromEnv, Keys, PostLoginURL
    <3>. QED
      BY <3>1, <3>2
  <2>. QED
    <3>1. settings' = settings \/ settings' = [settings EXCEPT ![k] = h]
      BY DEF SetSetting
    <3>2. settings \in [Keys -> Values] /\ PostLoginURL \in Keys
      BY DEF TypeOK, Keys, PostLoginURL
    <3>. QED
      BY <2>1, <3>1, <3>2
<1>3. todo[h] \subseteq Keys /\ k \in todo[h] /\ \A j \in todo[h] : k <= j
  BY DEF TypeOK, SetSetting, IsNext
<1>4. todo[h] \ {k} = {}
  BY <1>2, <1>3 DEF Keys, PostLoginURL
<1>. QED
  BY <1>4 DEF TypeOK, SetSetting, Processes, Reloaders

\* Steps that leave the table and the manager alone and take no reload away.
LEMMA ManagerUndisturbed ==
  ASSUME ManagerInv,
         UNCHANGED <<current, doubted, missed>>, Saved' = Saved,
         \A q \in Reloaders : Pending(q) => Pending(q)',
         \A p \in Reloaders : pc'[p] = "store" => pc[p] = "store" /\ url'[p] = url[p]
  PROVE  ManagerInv'
BY DEF ManagerInv

LEMMA ManagerStep == TypeOK /\ ManagerInv /\ [Next]_vars => ManagerInv'
<1> SUFFICES ASSUME TypeOK, ManagerInv, [Next]_vars PROVE ManagerInv'
  OBVIOUS
<1> USE DEF Processes, Reloaders
<1>1. ASSUME NEW h \in Savers, SaverStep(h) PROVE ManagerInv'
  <2>1. CASE Receive(h) \/ EncryptFault(h)
    <3>1. UNCHANGED <<current, doubted, missed, settings, url>>
      BY <2>1 DEF Receive, EncryptFault, memory, loaded, history
    <3>2. pc[h] \in {"idle", "saving"} /\ pc'[h] # "store"
          /\ \A q \in Processes \ {h} : pc'[q] = pc[q]
      BY <2>1 DEF Receive, EncryptFault, TypeOK
    <3>. QED
      BY <3>1, <3>2, ManagerUndisturbed DEF Pending, Saved
  <2>2. ASSUME NEW k \in Keys, SetSetting(h, k) PROVE ManagerInv'
    <3>1. UNCHANGED <<current, doubted, missed, url>>
      BY <2>2 DEF SetSetting, memory, loaded, history
    <3>2. pc[h] = "saving" /\ pc'[h] \in {"load", "saving"}
          /\ \A q \in Processes \ {h} : pc'[q] = pc[q]
      BY <2>2 DEF SetSetting, TypeOK
    <3>3. CASE Saved' = Saved
      BY <3>1, <3>2, <3>3, ManagerUndisturbed DEF Pending
    <3>4. CASE Saved' # Saved
      <4>1. Pending(h)'
        BY <2>2, <3>4, SaverReloads DEF Pending
      <4>2. \A p \in Reloaders : pc'[p] = "store" => h \in Reloaders \ {p}
        BY <3>2
      <4>. QED
        BY <4>1, <4>2 DEF ManagerInv
    <3>. QED
      BY <3>3, <3>4
  <2>. QED
    BY <1>1, <2>1, <2>2 DEF SaverStep
<1>2. ASSUME NEW r \in Requests, Need(r) PROVE ManagerInv'
  <2>1. UNCHANGED <<current, doubted, missed, settings, url>>
    BY <1>2 DEF Need, memory, loaded, history
  <2>2. pc[r] = "idle" /\ pc'[r] = "load" /\ \A q \in Processes \ {r} : pc'[q] = pc[q]
    BY <1>2 DEF Need, TypeOK
  <2>. QED
    BY <2>1, <2>2, ManagerUndisturbed DEF Pending, Saved
<1>3. ASSUME NEW p \in Reloaders, LoadURL(p) \/ LoadFault(p) PROVE ManagerInv'
  <2>1. UNCHANGED <<current, doubted, settings>> /\ Saved' = Saved
    BY <1>3 DEF LoadURL, LoadFault, memory, history, Saved
  <2>2. pc[p] = "load" /\ pc'[p] = "store" /\ \A q \in Processes \ {p} : pc'[q] = pc[q]
    BY <1>3 DEF LoadURL, LoadFault, TypeOK
  <2>3. \A q \in Reloaders : Pending(q) => Pending(q)'
    BY <2>2 DEF Pending
  <2>4. /\ missed \subseteq missed'
        /\ \A q \in Reloaders \ {p} : url'[q] = url[q]
        /\ p \notin missed' => url'[p] = Saved
    BY <1>3 DEF LoadURL, LoadFault, TypeOK, memory, history, Saved
  <2>5. ASSUME NEW q \in Reloaders, pc'[q] = "store", q \notin missed'
        PROVE  url'[q] = Saved' \/ \E o \in Reloaders \ {q} : Pending(o)'
    BY <2>1, <2>2, <2>3, <2>4, <2>5 DEF ManagerInv
  <2>. QED
    BY <2>1, <2>3, <2>5 DEF ManagerInv
<1>4. ASSUME NEW p \in Reloaders, Store(p) PROVE ManagerInv'
  <2>1. pc[p] = "store" /\ pc'[p] = "done" /\ \A q \in Processes \ {p} : pc'[q] = pc[q]
    BY <1>4 DEF Store, TypeOK
  <2>2. current' = url[p] /\ doubted' = (p \in missed) /\ Saved' = Saved
        /\ missed' = {q \in Reloaders : pc'[q] = "store"}
    BY <1>4 DEF Store, Saved
  <2>3. \A q \in Reloaders : pc'[q] = "store" => q \in missed'
    BY <2>2
  <2>4. ASSUME ~doubted' PROVE current' = Saved' \/ \E q \in Reloaders : Pending(q)'
    <3>1. url[p] = Saved \/ \E q \in Reloaders \ {p} : Pending(q)
      BY <2>1, <2>2, <2>4 DEF ManagerInv
    <3>. QED
      BY <2>1, <2>2, <3>1 DEF Pending
  <2>. QED
    BY <2>3, <2>4 DEF ManagerInv
<1>5. ASSUME NEW e \in Events, EventStep(e) PROVE ManagerInv'
  <2>1. UNCHANGED <<settings, current, url, missed, doubted>>
    BY <1>5 DEF EventStep, Succeed, LoadClient, Obtain, ObtainWith, Report,
         memory, loaded, history
  <2>2. \A q \in Processes \ {e} : pc'[q] = pc[q]
    BY <1>5 DEF EventStep, Succeed, LoadClient, Obtain, ObtainWith, Report, TypeOK
  <2>3. e \notin Reloaders
    BY ProcessesAssumption
  <2>. QED
    BY <2>1, <2>2, <2>3, ManagerUndisturbed DEF Pending, Saved
<1>6. CASE Restart
  BY <1>6 DEF Restart, ManagerInv
<1>7. CASE UNCHANGED vars
  BY <1>7, ManagerUndisturbed DEF vars, memory, loaded, history, Pending, Saved
<1>. QED
  BY <1>1, <1>2, <1>3, <1>4, <1>5, <1>6, <1>7, StepCases DEF ReloadStep

\* Once no save and no reload is under way, the manager is that of the saved
\* settings, unless the reload that built it failed to read them or was overtaken.
THEOREM ManagerStaleOnlyWhenDoubted == Spec => []StaleOnlyWhenDoubted
<1>1. Init => ManagerInv
  BY DEF Init, ManagerInv, Processes
<1>2. ManagerInv => StaleOnlyWhenDoubted
  BY DEF ManagerInv, StaleOnlyWhenDoubted, Saving, Pending, Saved
<1>. QED
  BY <1>1, <1>2, TypeInit, TypeStep, ManagerStep, PTL DEF Spec

-------------------------------------------------------------------------------
(* The sink.                                                                *)

LEMMA SinkUndisturbed ==
  ASSUME SinkInv, UNCHANGED <<built, client, got>>,
         \A e \in Events : pc'[e] = "report" => pc[e] = "report"
  PROVE  SinkInv'
BY DEF SinkInv, ReportedWithOwn, ReplacedClosedOnce, Reporter

LEMMA ObtainKeeps ==
  ASSUME TypeOK, SinkInv, NEW e \in Events, Obtain(e)
  PROVE  SinkInv'
<1>0. Len(built) \in Nat /\ got \in [Events -> 0 .. Len(built)]
  BY LenProperties DEF TypeOK
<1>1. \A d \in Events \ {e} : pc'[d] = pc[d] /\ got'[d] = got[d] /\ client'[d] = client[d]
  BY ObtainCases DEF TypeOK, Processes
<1>2. \A d \in Events : pc[d] = "report" =>
        got[d] \in 1 .. Len(built) /\ built[got[d]].client = client[d]
  BY <1>0 DEF SinkInv, ReportedWithOwn
<1>3. CASE UNCHANGED built
  <2>1. pc'[e] = "report" => got'[e] # 0 /\ built[got'[e]].client = client'[e]
    <3>1. pc'[e] = "report" =>
            \/ got'[e] = Reporter /\ Reporter # 0 /\ built[Reporter].client = client[e]
               /\ UNCHANGED client
            \/ built' = WithNew(Closed, client[e])
               /\ client[e] \in (Values \ {Unset}) \X (Values \ {Unset})
      BY ObtainCases DEF TypeOK, Processes
    <3>2. ASSUME client[e] \in (Values \ {Unset}) \X (Values \ {Unset})
          PROVE  built # WithNew(Closed, client[e])
      <4>1. Len(WithNew(Closed, client[e])) = Len(built) + 1
        BY <3>2, Replaced DEF TypeOK, Made
      <4>. QED
        BY <1>0, <4>1
    <3>. QED
      BY <1>3, <3>1, <3>2
  <2>2. ReplacedClosedOnce'
    BY <1>3 DEF SinkInv, ReplacedClosedOnce, Reporter
  <2>. QED
    BY <1>1, <1>2, <1>3, <2>1, <2>2 DEF SinkInv, ReportedWithOwn
<1>4. ASSUME client[e] \in (Values \ {Unset}) \X (Values \ {Unset}), UNCHANGED client,
             built' = WithNew(Closed, client[e]), got' = [got EXCEPT ![e] = Len(built')]
      PROVE  SinkInv'
  <2>1. /\ Len(built') = Len(built) + 1
        /\ \A i \in 1 .. Len(built) :
             /\ built'[i].client = built[i].client
             /\ built'[i].closed = IF i = Reporter THEN built[i].closed + 1
                                                   ELSE built[i].closed
        /\ built'[Len(built) + 1] = [client |-> client[e], closed |-> 0]
    BY <1>4, Replaced DEF TypeOK, Made
  <2>2. got'[e] = Len(built) + 1 /\ built'[got'[e]].client = client'[e]
    BY <1>0, <1>4, <2>1
  <2>3. \A d \in Events : pc'[d] = "report" => got'[d] # 0 /\ built'[got'[d]].client = client'[d]
    BY <1>0, <1>1, <1>2, <2>1, <2>2
  <2>4. ReplacedClosedOnce'
    <3>1. \A i \in 1 .. Len(built) : built[i].closed = IF i = Len(built) THEN 0 ELSE 1
      BY DEF SinkInv, ReplacedClosedOnce, Reporter
    <3>2. \A i \in 1 .. Len(built) : built'[i].closed = 1
      BY <1>0, <2>1, <3>1 DEF Reporter
    <3>3. \A i \in 1 .. Len(built) + 1 :
            built'[i].closed = IF i = Len(built) + 1 THEN 0 ELSE 1
      <4> SUFFICES ASSUME NEW i \in 1 .. Len(built) + 1
                   PROVE  built'[i].closed = IF i = Len(built) + 1 THEN 0 ELSE 1
        OBVIOUS
      <4>1. CASE i = Len(built) + 1
        BY <2>1, <4>1
      <4>2. CASE i # Len(built) + 1
        <5>1. i \in 1 .. Len(built)
          BY <1>0, <4>2
        <5>. QED
          BY <3>2, <4>2, <5>1
      <4>. QED
        BY <4>1, <4>2
    <3>. QED
      BY <2>1, <3>3 DEF ReplacedClosedOnce, Reporter
  <2>. QED
    BY <2>3, <2>4 DEF SinkInv, ReportedWithOwn
<1>. QED
  BY <1>3, <1>4, ObtainCases

LEMMA SinkStep == TypeOK /\ SinkInv /\ [Next]_vars => SinkInv'
<1> SUFFICES ASSUME TypeOK, SinkInv, [Next]_vars PROVE SinkInv'
  OBVIOUS
<1>1. ASSUME NEW p \in Reloaders,
             ReloadStep(p) \/ (p \in Savers /\ SaverStep(p)) \/ (p \in Requests /\ Need(p))
      PROVE  SinkInv'
  <2>1. UNCHANGED <<built, client, got>>
    BY <1>1 DEF ReloadStep, SaverStep, Need, LoadURL, LoadFault, Store, Receive, EncryptFault,
         SetSetting, memory, loaded
  <2>2. \A q \in Processes \ {p} : pc'[q] = pc[q]
    BY <1>1 DEF ReloadStep, SaverStep, Need, LoadURL, LoadFault, Store, Receive, EncryptFault,
         SetSetting, TypeOK
  <2>3. p \notin Events
    BY ProcessesAssumption DEF Reloaders
  <2>. QED
    BY <2>1, <2>2, <2>3, SinkUndisturbed DEF Processes
<1>2. ASSUME NEW e \in Events, EventStep(e) PROVE SinkInv'
  <2>1. CASE Succeed(e)
    BY <2>1, SinkUndisturbed DEF Succeed, TypeOK, Processes, memory, loaded
  <2>2. CASE LoadClient(e) \/ Report(e)
    <3>1. /\ UNCHANGED built /\ pc'[e] # "report"
          /\ \A d \in Events \ {e} : pc'[d] = pc[d] /\ got'[d] = got[d]
                                     /\ client'[d] = client[d]
      BY <2>2 DEF LoadClient, Report, TypeOK, Processes, memory
    <3>. QED
      BY <3>1 DEF SinkInv, ReportedWithOwn, ReplacedClosedOnce, Reporter
  <2>. QED
    BY <1>2, <2>1, <2>2, ObtainKeeps DEF EventStep
<1>3. CASE Restart
  <2>1. Len(built') = 0
    BY <1>3, EmptySeq DEF Restart
  <2>2. \A e \in Events : pc'[e] # "report"
    BY <1>3 DEF Restart, Processes
  <2>. QED
    BY <2>1, <2>2 DEF SinkInv, ReportedWithOwn, ReplacedClosedOnce
<1>4. CASE UNCHANGED vars
  BY <1>4, SinkUndisturbed DEF vars, memory, loaded
<1>. QED
  BY <1>1, <1>2, <1>3, <1>4, StepCases DEF Reloaders

LEMMA SinkInit == Init => SinkInv
<1> SUFFICES ASSUME Init PROVE SinkInv
  OBVIOUS
<1>1. Len(built) = 0
  BY EmptySeq DEF Init
<1>. QED
  BY <1>1 DEF Init, SinkInv, ReportedWithOwn, ReplacedClosedOnce, Processes

\* activitySink gives an event a reporter of the credentials the event read, and
\* whatever replaces the reporter meanwhile, it is that one the event goes out by.
THEOREM EventsReportedWithOwn == Spec => []ReportedWithOwn
<1>. QED
  BY SinkInit, TypeInit, TypeStep, SinkStep, PTL DEF Spec, SinkInv

\* activitySink closes every reporter it replaces exactly once and never the live one.
THEOREM ReportersClosedOnce == Spec => []ReplacedClosedOnce
<1>. QED
  BY SinkInit, TypeInit, TypeStep, SinkStep, PTL DEF Spec, SinkInv
===============================================================================
