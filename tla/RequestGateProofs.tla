--------------------------- MODULE RequestGateProofs ---------------------------
(***************************************************************************)
(* The gate's invariants, for any users, credentials and changes.  They    *)
(* hold together with three facts about a request under way: what its      *)
(* history has seen covers what the rows say now, an issued token keeps    *)
(* its owner, and no place before the one being tried is steady.           *)
(***************************************************************************)
EXTENDS RequestGate, TLAPS

UnderWay == pc \in {"check", "row", "acting"}

RowsOK ==
  /\ role \in [Users -> Roles \cup {Absent}]
  /\ active \in [Users -> BOOLEAN]
  /\ owner \in [ApiTokens -> Users \cup {None}]
  /\ valid \subseteq Credentials
  /\ cutOff \subseteq Jwts

IssuedOwned == \A t \in ApiTokens \cap valid : owner[t] \in Users

HistoryCovers ==
  UnderWay =>
    /\ ValidPlaces(carried) \subseteq wasValid
    /\ EnoughPlaces(carried, route) \subseteq wasEnough
    /\ steady \subseteq GoodPlaces(carried)
    /\ \A p \in wasValid : carried[p] \in Credentials /\ OwnerOf(carried[p]) \in Users

Accepting ==
  /\ UnderWay => CsrfPasses(carried, safe, confirmed)
  /\ pc \in {"row", "acting"} => place \in wasValid

NoneBefore ==
  /\ UnderWay /\ ~faulted => \A p \in steady : place <= p
  /\ pc = "unauthenticated" /\ ~faulted => steady = {}

IInv ==
  /\ TypeOK /\ IssuedOwned /\ HistoryCovers /\ Accepting /\ NoneBefore
  /\ ActsOnHeldAuthority

RowChange ==
  \/ \E u \in Users : AdminChange(u) \/ CutOff(u)
  \/ \E c \in valid : End(c)

-------------------------------------------------------------------------------
\* A change of the rows keeps them well formed and takes no token from its owner.
LEMMA RowChangeKeeps ==
  ASSUME RowsOK, IssuedOwned, RowChange
  PROVE  /\ RowsOK' /\ IssuedOwned'
         /\ \A c \in Credentials : OwnerOf(c) \in Users => OwnerOf(c)' = OwnerOf(c)
<1> USE UsersAssumption, CredentialsAssumption DEF RowsOK, IssuedOwned, Credentials
<1>1. CASE \E v \in Users, r \in Roles \cup {"superuser"} :
             CreateUser(v, r) \/ \E on \in BOOLEAN : UpdateUser(v, r, on)
  <2>1. PICK v \in Users, r \in Roles, on \in BOOLEAN :
          /\ role' = [role EXCEPT ![v] = r] /\ active' = [active EXCEPT ![v] = on]
          /\ UNCHANGED <<owner, valid, cutOff>>
    BY <1>1 DEF CreateUser, UpdateUser, Roles
  <2>. QED
    BY <2>1 DEF OwnerOf
<1>2. ASSUME NEW t \in ApiTokens, NEW u \in Users, CreateApiToken(t, u)
      PROVE  /\ RowsOK' /\ IssuedOwned'
             /\ \A c \in Credentials : OwnerOf(c) \in Users => OwnerOf(c)' = OwnerOf(c)
  <2>1. RowsOK' /\ IssuedOwned'
    BY <1>2 DEF CreateApiToken
  <2>2. ASSUME NEW c \in Credentials, OwnerOf(c) \in Users
        PROVE  OwnerOf(c)' = OwnerOf(c)
    <3>1. c # t
      BY <1>2, <2>2 DEF CreateApiToken, OwnerOf
    <3>. QED
      BY <1>2, <3>1 DEF CreateApiToken, OwnerOf
  <2>. QED
    BY <2>1, <2>2
<1>3. ASSUME NEW c \in Credentials, End(c)
      PROVE  /\ RowsOK' /\ IssuedOwned'
             /\ \A d \in Credentials : OwnerOf(d) \in Users => OwnerOf(d)' = OwnerOf(d)
  BY <1>3 DEF End, OwnerOf
<1>4. ASSUME NEW u \in Users, CutOff(u)
      PROVE  /\ RowsOK' /\ IssuedOwned'
             /\ \A c \in Credentials : OwnerOf(c) \in Users => OwnerOf(c)' = OwnerOf(c)
  BY <1>4 DEF CutOff, OwnerOf
<1>. QED
  BY <1>1, <1>2, <1>3, <1>4 DEF RowChange, AdminChange

\* A credential that does not serve leaves no steady place behind.
LEMMA NextPlaceKeepsOrder ==
  ASSUME TypeOK, pc \in {"check", "row"}, NextPlace, steady' = steady,
         faulted' = faulted \/ faulted' = TRUE,
         NoneBefore, place \notin steady \/ faulted' = TRUE
  PROVE  NoneBefore' /\ place' \in Places /\ pc' \in {"check", "unauthenticated"}
<1>1. place' \in Places /\ pc' \in {"check", "unauthenticated"}
  BY DEF TypeOK, NextPlace, Places, Cookie
<1>2. SUFFICES ASSUME ~faulted'
               PROVE  NoneBefore'
  BY <1>1 DEF NoneBefore, UnderWay
<1>3. \A p \in steady : place < p /\ p <= Cookie
  <2>1. place \notin steady /\ ~faulted
    BY <1>2
  <2>2. \A p \in steady : place <= p
    BY <2>1 DEF NoneBefore, UnderWay
  <2>. QED
    BY <2>1, <2>2 DEF TypeOK, Places, Cookie
<1>4. CASE place = Cookie
  <2>1. steady = {}
    BY <1>3, <1>4 DEF TypeOK, Places, Cookie
  <2>. QED
    BY <2>1, <1>4 DEF NextPlace, NoneBefore, UnderWay
<1>5. CASE place # Cookie
  <2>1. pc' = "check" /\ place' = place + 1
    BY <1>5 DEF NextPlace
  <2>2. \A p \in steady : place + 1 <= p
    BY <1>3 DEF TypeOK, Places, Cookie
  <2>. QED
    BY <2>1, <2>2 DEF NoneBefore, UnderWay
<1>. QED
  BY <1>4, <1>5

\* A step of the gate itself leaves the rows and what the history saw of them.
LEMMA GateKeeps ==
  ASSUME IInv, KeepRequest, UnderWay
  PROVE  /\ RowsOK' /\ IssuedOwned' /\ HistoryCovers'
         /\ CsrfPasses(carried, safe, confirmed)'
         /\ \A c \in Credentials : OwnerOf(c)' = OwnerOf(c)
<1>1. RowsOK' /\ IssuedOwned' /\ \A c \in Credentials : OwnerOf(c)' = OwnerOf(c)
  BY DEF IInv, TypeOK, IssuedOwned, RowsOK, KeepRequest, rowVars, OwnerOf
<1>2. CsrfPasses(carried, safe, confirmed)'
  BY DEF IInv, Accepting, CsrfPasses, KeepRequest
<1>3. /\ EnoughPlaces(carried, route)' = EnoughPlaces(carried, route)
      /\ ValidPlaces(carried)' = ValidPlaces(carried)
      /\ GoodPlaces(carried)' = GoodPlaces(carried)
  BY DEF KeepRequest, rowVars, EnoughPlaces, ValidPlaces, GoodPlaces, AcceptedPlaces, Accepted,
         OwnerOf
<1>4. HistoryCovers'
  <2>1. /\ EnoughPlaces(carried, route) \subseteq wasEnough
        /\ ValidPlaces(carried) \subseteq wasValid
        /\ steady \subseteq GoodPlaces(carried)
        /\ \A p \in wasValid : carried[p] \in Credentials /\ OwnerOf(carried[p]) \in Users
    BY DEF IInv, HistoryCovers
  <2>2. \A p \in wasValid' : carried[p]' \in Credentials /\ OwnerOf(carried[p])' \in Users
    BY <2>1, <1>1 DEF KeepRequest, rowVars, OwnerOf
  <2>. QED
    BY <2>1, <2>2, <1>3 DEF KeepRequest, HistoryCovers
<1>. QED
  BY <1>1, <1>2, <1>4

LEMMA InitInv == Init => IInv
<1> SUFFICES ASSUME Init PROVE IInv
  OBVIOUS
<1> USE UsersAssumption, CredentialsAssumption
<1>1. TypeOK
  <2>1. carried \in MayCarry
    BY DEF Init, MayCarry, Places, Bearer, Session, Cookie
  <2>2. RowsOK
    BY DEF Init, RowsOK, Credentials
  <2>3. "use" \in Routes /\ Bearer \in Places /\ 0 \in 0 .. MaxChanges
    BY DEF Routes, Bearer, Places
  <2>. QED
    BY <2>1, <2>2, <2>3 DEF Init, TypeOK, RowsOK
<1>2. IssuedOwned
  BY DEF Init, IssuedOwned
<1>. QED
  BY <1>1, <1>2 DEF Init, IInv, HistoryCovers, Accepting, NoneBefore, UnderWay,
                    ActsOnHeldAuthority

LEMMA ArriveInv == IInv /\ Arrive => IInv'
<1> SUFFICES ASSUME IInv, Arrive PROVE IInv'
  OBVIOUS
<1> USE UsersAssumption, CredentialsAssumption
<1>1. RowsOK' /\ IssuedOwned'
  BY DEF IInv, TypeOK, IssuedOwned, RowsOK, Arrive, rowVars
<1>2. /\ EnoughPlaces(carried, route)' = wasEnough' /\ ValidPlaces(carried)' = wasValid'
      /\ GoodPlaces(carried)' = steady'
  BY DEF Arrive, rowVars, EnoughPlaces, ValidPlaces, GoodPlaces, AcceptedPlaces, Accepted, OwnerOf
<1>3. wasEnough' \subseteq Places /\ wasValid' \subseteq Places /\ steady' \subseteq Places
  BY <1>2 DEF EnoughPlaces, ValidPlaces, GoodPlaces, AcceptedPlaces
<1>4. TypeOK'
  <2>1. place' \in Places /\ pc' \in {"check", "refused"}
    BY DEF Arrive, Places, Bearer
  <2>. QED
    BY <1>1, <1>3, <2>1 DEF Arrive, TypeOK, RowsOK, IInv
<1>5. HistoryCovers'
  <2>1. \A p \in wasValid' : carried'[p] \in Credentials /\ OwnerOf(carried[p])' \in Users
    <3>1. \A p \in wasValid' : carried'[p] \in valid'
      BY <1>2 DEF ValidPlaces
    <3>2. \A c \in valid' : c \in Credentials /\ OwnerOf(c)' \in Users
      BY <1>1 DEF RowsOK, IssuedOwned, OwnerOf, Credentials
    <3>. QED
      BY <3>1, <3>2 DEF OwnerOf
  <2>. QED
    BY <1>2, <2>1 DEF HistoryCovers
<1>6. Accepting' /\ ActsOnHeldAuthority'
  BY DEF Arrive, Accepting, UnderWay, CsrfPasses, ActsOnHeldAuthority
<1>7. NoneBefore'
  BY <1>3 DEF Arrive, NoneBefore, UnderWay, Places, Bearer
<1>. QED
  BY <1>1, <1>4, <1>5, <1>6, <1>7 DEF IInv

LEMMA FinishInv == IInv /\ Finish => IInv'
<1> SUFFICES ASSUME IInv, Finish PROVE IInv'
  OBVIOUS
<1> USE UsersAssumption, CredentialsAssumption
<1>1. TypeOK'
  <2>1. carried' \in MayCarry
    BY DEF Finish, MayCarry, Places, Bearer, Session, Cookie
  <2>2. RowsOK' /\ changes' \in 0 .. MaxChanges
    BY DEF Finish, IInv, TypeOK, RowsOK, rowVars
  <2>3. "use" \in Routes /\ Bearer \in Places
    BY DEF Routes, Bearer, Places
  <2>. QED
    BY <2>1, <2>2, <2>3 DEF Finish, TypeOK, RowsOK
<1>2. IssuedOwned'
  BY DEF Finish, IInv, IssuedOwned, rowVars
<1>. QED
  BY <1>1, <1>2 DEF Finish, IInv, HistoryCovers, Accepting, NoneBefore, UnderWay,
                    ActsOnHeldAuthority

\* The types of what a step of the gate sets.
LEMMA GateTypes ==
  ASSUME IInv, KeepRequest, UnderWay, place' \in Places, user' \in Users \cup {None},
         faulted' \in BOOLEAN,
         pc' \in {"check", "row", "acting", "refused", "unauthenticated", "unavailable"}
  PROVE  TypeOK'
<1>1. RowsOK'
  BY GateKeeps
<1>. QED
  BY <1>1 DEF IInv, TypeOK, RowsOK, KeepRequest, rowVars

LEMMA PassedOver ==
  ASSUME IInv, KeepRequest, pc \in {"check", "row"}, NextPlace, UNCHANGED user,
         faulted' = faulted \/ faulted' = TRUE, place \notin steady \/ faulted' = TRUE
  PROVE  IInv'
<1>1. UnderWay /\ TypeOK /\ NoneBefore /\ steady' = steady
  BY DEF UnderWay, IInv, KeepRequest
<1>2. NoneBefore' /\ place' \in Places /\ pc' \in {"check", "unauthenticated"}
  BY <1>1, NextPlaceKeepsOrder
<1>3. TypeOK'
  <2>1. faulted' \in BOOLEAN /\ user' \in Users \cup {None}
    BY <1>1 DEF TypeOK
  <2>. QED
    BY <1>1, <1>2, <2>1, GateTypes
<1>4. IssuedOwned' /\ HistoryCovers' /\ CsrfPasses(carried, safe, confirmed)'
  BY <1>1, GateKeeps
<1>. QED
  BY <1>2, <1>3, <1>4 DEF IInv, Accepting, ActsOnHeldAuthority

LEMMA CheckInv == IInv /\ Check => IInv'
<1> SUFFICES ASSUME IInv, Check PROVE IInv'
  OBVIOUS
<1>1. /\ UnderWay /\ KeepRequest /\ TypeOK /\ place \in Places
      /\ user \in Users \cup {None} /\ faulted \in BOOLEAN
  BY DEF Check, UnderWay, IInv, TypeOK
<1>2. CASE carried[place] \notin valid
  <2>1. place \notin steady
    BY <1>1, <1>2 DEF IInv, HistoryCovers, GoodPlaces, ValidPlaces, AcceptedPlaces
  <2>. QED
    BY <1>1, <1>2, <2>1, PassedOver DEF Check
<1>3. CASE carried[place] \in valid
  <2>1. pc' = "row" /\ UNCHANGED <<place, user, faulted, wasValid, steady>>
    BY <1>3 DEF Check, KeepRequest
  <2>2. TypeOK'
    BY <1>1, <2>1, GateTypes
  <2>3. IssuedOwned' /\ HistoryCovers' /\ CsrfPasses(carried, safe, confirmed)'
    BY <1>1, GateKeeps
  <2>4. place \in wasValid
    BY <1>1, <1>3 DEF IInv, HistoryCovers, ValidPlaces
  <2>5. NoneBefore'
    BY <1>1, <2>1 DEF IInv, NoneBefore, UnderWay
  <2>. QED
    BY <2>1, <2>2, <2>3, <2>4, <2>5 DEF IInv, Accepting, ActsOnHeldAuthority
<1>. QED
  BY <1>2, <1>3

LEMMA ProviderUnavailableInv == IInv /\ ProviderUnavailable => IInv'
<1> SUFFICES ASSUME IInv, ProviderUnavailable PROVE IInv'
  OBVIOUS
<1>1. /\ UnderWay /\ KeepRequest /\ place' \in Places /\ pc' = "unavailable"
      /\ user' \in Users \cup {None} /\ faulted' \in BOOLEAN
  BY DEF ProviderUnavailable, UnderWay, IInv, TypeOK
<1>2. TypeOK' /\ IssuedOwned' /\ HistoryCovers'
  BY <1>1, GateTypes, GateKeeps
<1>. QED
  BY <1>1, <1>2 DEF IInv, Accepting, ActsOnHeldAuthority, NoneBefore, UnderWay

LEMMA ReadFaultInv == IInv /\ ReadFault => IInv'
BY PassedOver DEF ReadFault

LEMMA ReadUserInv == IInv /\ ReadUser => IInv'
<1> SUFFICES ASSUME IInv, ReadUser PROVE IInv'
  OBVIOUS
<1> DEFINE u == OwnerOf(carried[place])
<1>1. /\ UnderWay /\ KeepRequest /\ TypeOK /\ place \in Places /\ place \in wasValid
      /\ faulted \in BOOLEAN /\ faulted' = faulted
  BY DEF ReadUser, UnderWay, IInv, TypeOK, Accepting
<1>2. carried[place] \in Credentials /\ u \in Users
  BY <1>1 DEF IInv, HistoryCovers
<1>3. CASE ~Accepted(carried[place])
  <2>1. place \notin steady
    BY <1>1, <1>3 DEF IInv, HistoryCovers, GoodPlaces, AcceptedPlaces
  <2>. QED
    BY <1>1, <1>3, <2>1, PassedOver DEF ReadUser
<1>4. CASE Accepted(carried[place])
  <2>1. /\ user' = u /\ UNCHANGED place
        /\ pc' = IF Suffices(role[u], route) THEN "acting" ELSE "refused"
    BY <1>4 DEF ReadUser
  <2>2. TypeOK'
    BY <1>1, <1>2, <2>1, GateTypes
  <2>3. /\ IssuedOwned' /\ HistoryCovers' /\ CsrfPasses(carried, safe, confirmed)'
        /\ \A c \in Credentials : OwnerOf(c)' = OwnerOf(c)
    BY <1>1, GateKeeps
  <2>4. /\ carried' = carried /\ wasValid' = wasValid /\ wasEnough' = wasEnough
        /\ steady' = steady
    BY <1>1 DEF KeepRequest
  <2>5. ActsOnHeldAuthority'
    <3>1. pc' = "acting" => place \in EnoughPlaces(carried, route)
      BY <1>1, <1>2, <1>4, <2>1, CredentialsAssumption
         DEF EnoughPlaces, AcceptedPlaces, Credentials
    <3>2. pc' = "acting" => place' \in wasEnough'
      BY <1>1, <2>1, <2>4, <3>1 DEF IInv, HistoryCovers
    <3>3. OwnerOf(carried[place])' = u
      BY <1>1, <2>1 DEF KeepRequest, rowVars, OwnerOf
    <3>. QED
      BY <1>1, <2>1, <2>4, <3>2, <3>3 DEF ActsOnHeldAuthority
  <2>6. NoneBefore'
    BY <1>1, <2>1, <2>4 DEF IInv, NoneBefore, UnderWay
  <2>. QED
    BY <1>1, <2>1, <2>2, <2>3, <2>4, <2>5, <2>6 DEF IInv, Accepting
<1>. QED
  BY <1>3, <1>4

\* A change of the rows, watched: the history still covers them, owners stay.
LEMMA WatchKeeps ==
  ASSUME IInv, RowChange \/ UNCHANGED rowVars, Watch,
         UNCHANGED <<route, safe, confirmed, carried, place, user>>, changes' \in 0 .. MaxChanges,
         pc' \in {pc, "done"}
  PROVE  /\ TypeOK' /\ IssuedOwned' /\ HistoryCovers'
         /\ \A c \in Credentials : OwnerOf(c) \in Users => OwnerOf(c)' = OwnerOf(c)
         /\ wasValid \subseteq wasValid' /\ wasEnough \subseteq wasEnough' /\ steady' \subseteq steady
<1>1. RowsOK /\ IssuedOwned
  BY DEF IInv, TypeOK, RowsOK
<1>2. /\ RowsOK' /\ IssuedOwned'
      /\ \A c \in Credentials : OwnerOf(c) \in Users => OwnerOf(c)' = OwnerOf(c)
  <2>1. CASE RowChange
    BY <1>1, <2>1, RowChangeKeeps
  <2>2. CASE UNCHANGED rowVars
    BY <1>1, <2>2 DEF RowsOK, IssuedOwned, rowVars, OwnerOf
  <2>. QED
    BY <2>1, <2>2
<1>3. /\ wasEnough' = wasEnough \cup EnoughPlaces(carried, route)'
      /\ wasValid' = wasValid \cup ValidPlaces(carried)'
      /\ steady' = steady \cap GoodPlaces(carried)'
  BY DEF Watch
<1>4. EnoughPlaces(carried, route)' \subseteq Places /\ ValidPlaces(carried)' \subseteq Places
  BY DEF EnoughPlaces, AcceptedPlaces, ValidPlaces
<1>5. TypeOK'
  BY <1>2, <1>3, <1>4 DEF IInv, TypeOK, RowsOK, Watch
<1>6. ASSUME UnderWay'
      PROVE  \A p \in wasValid' : carried'[p] \in Credentials /\ OwnerOf(carried[p])' \in Users
  <2>1. \A p \in wasValid : carried[p] \in Credentials /\ OwnerOf(carried[p]) \in Users
    BY <1>6 DEF IInv, HistoryCovers, UnderWay
  <2>2. \A p \in wasValid : carried'[p] \in Credentials /\ OwnerOf(carried[p])' \in Users
    <3>1. ASSUME NEW p \in wasValid
          PROVE  carried'[p] \in Credentials /\ OwnerOf(carried[p])' \in Users
      <4>1. PICK c \in Credentials : c = carried[p]
        BY <2>1, <3>1
      <4>2. OwnerOf(c)' = OwnerOf(c) /\ OwnerOf(c) \in Users
        BY <1>2, <2>1, <3>1, <4>1
      <4>. QED
        BY <4>1, <4>2 DEF OwnerOf
    <3>. QED
      BY <3>1
  <2>3. \A c \in valid' : c \in Credentials /\ OwnerOf(c)' \in Users
    BY <1>2, CredentialsAssumption DEF RowsOK, IssuedOwned, OwnerOf, Credentials
  <2>4. \A p \in ValidPlaces(carried)' : carried'[p] \in valid'
    BY DEF ValidPlaces
  <2>5. \A p \in ValidPlaces(carried)' :
          carried'[p] \in Credentials /\ OwnerOf(carried[p])' \in Users
    BY <2>3, <2>4 DEF OwnerOf
  <2>. QED
    BY <1>3, <2>2, <2>5
<1>7. HistoryCovers'
  BY <1>3, <1>6 DEF HistoryCovers
<1>. QED
  BY <1>2, <1>3, <1>5, <1>7

LEMMA OthersInv == IInv /\ Others => IInv'
<1> SUFFICES ASSUME IInv, Others PROVE IInv'
  OBVIOUS
<1>1. /\ RowChange /\ Watch
      /\ UNCHANGED <<pc, route, safe, confirmed, carried, place, user, faulted>>
      /\ changes' = changes + 1 /\ changes < MaxChanges
  BY DEF Others, requestVars, RowChange, Watch
<1>2. changes' \in 0 .. MaxChanges
  BY <1>1, UsersAssumption DEF IInv, TypeOK
<1>3. /\ TypeOK' /\ IssuedOwned' /\ HistoryCovers'
      /\ \A c \in Credentials : OwnerOf(c) \in Users => OwnerOf(c)' = OwnerOf(c)
      /\ wasValid \subseteq wasValid' /\ wasEnough \subseteq wasEnough' /\ steady' \subseteq steady
  BY <1>1, <1>2, WatchKeeps
<1>4. Accepting'
  BY <1>1, <1>3 DEF IInv, Accepting, UnderWay, CsrfPasses
<1>5. NoneBefore'
  BY <1>1, <1>3 DEF IInv, NoneBefore, UnderWay
<1>6. ActsOnHeldAuthority'
  <2> SUFFICES ASSUME pc = "acting"
               PROVE  /\ place \in wasValid' /\ place \in wasEnough'
                      /\ user = OwnerOf(carried[place])'
    BY <1>1 DEF ActsOnHeldAuthority
  <2>1. place \in wasValid /\ place \in wasEnough /\ user = OwnerOf(carried[place])
    BY DEF IInv, ActsOnHeldAuthority
  <2>2. PICK c \in Credentials : c = carried[place]
    BY <2>1 DEF IInv, HistoryCovers, UnderWay
  <2>3. OwnerOf(c)' = user
    BY <1>3, <2>1, <2>2 DEF IInv, HistoryCovers, UnderWay
  <2>4. OwnerOf(carried[place])' = OwnerOf(c)'
    BY <1>1, <2>2 DEF OwnerOf
  <2>. QED
    BY <1>3, <2>1, <2>3, <2>4
<1>. QED
  BY <1>3, <1>4, <1>5, <1>6 DEF IInv

LEMMA ActInv == IInv /\ Act => IInv'
<1> SUFFICES ASSUME IInv, Act PROVE IInv'
  OBVIOUS
<1>1. /\ Watch /\ UNCHANGED <<route, safe, confirmed, carried, place, user>>
      /\ pc = "acting" /\ pc' = "done"
  BY DEF Act
<1>2. user \in Users
  BY <1>1 DEF IInv, ActsOnHeldAuthority, HistoryCovers, UnderWay
<1>3. HandlerChange => RowChange
  <2>1. End(carried[Session]) => carried[Session] \in valid
    BY DEF End
  <2>. QED
    BY <1>2, <2>1 DEF HandlerChange, RowChange
<1>4. changes' \in 0 .. MaxChanges /\ (RowChange \/ UNCHANGED rowVars)
  BY <1>3, UsersAssumption DEF Act, IInv, TypeOK
<1>5. TypeOK' /\ IssuedOwned' /\ HistoryCovers'
  BY <1>1, <1>4, WatchKeeps
<1>. QED
  BY <1>1, <1>5 DEF IInv, Accepting, NoneBefore, UnderWay, ActsOnHeldAuthority

LEMMA StepInv == IInv /\ [Next]_vars => IInv'
<1> SUFFICES ASSUME IInv, [Next]_vars PROVE IInv'
  OBVIOUS
<1>1. CASE UNCHANGED vars
  BY <1>1 DEF vars, rowVars, requestVars, historyVars, IInv, TypeOK, IssuedOwned,
              HistoryCovers, Accepting, NoneBefore, ActsOnHeldAuthority, UnderWay,
              CsrfPasses, EnoughPlaces, ValidPlaces, GoodPlaces, AcceptedPlaces, Accepted,
              OwnerOf
<1>. QED
  BY <1>1, ArriveInv, CheckInv, ProviderUnavailableInv, ReadUserInv, ReadFaultInv,
     ActInv, FinishInv, OthersInv DEF Next

\* The inductive invariant of the gate.
LEMMA Invariance == Spec => []IInv
BY InitInv, StepInv, PTL DEF Spec

\* Every role stored and every field of a request is one the gate knows, for any
\* users, credentials and number of changes.
THEOREM GateTypeCorrect == Spec => []TypeOK
<1>1. IInv => TypeOK
  BY DEF IInv
<1>. QED
  BY <1>1, Invariance, PTL

\* AuthMiddleware and the role guards: a handler runs only for the owner of a
\* credential that was valid and, by that owner's row, neither cut off nor
\* refused for its kind, with a role that may, while the request lasted.
THEOREM GateActsOnHeldAuthority == Spec => []ActsOnHeldAuthority
<1>1. IInv => ActsOnHeldAuthority
  BY DEF IInv
<1>. QED
  BY <1>1, Invariance, PTL

\* CSRFMiddleware and the fall-through of AuthMiddleware together: no change is
\* made on a cookie without the CSRF token.
THEOREM GateCookieChangesConfirmed == Spec => []CookieChangesConfirmed
<1>1. IInv => CookieChangesConfirmed
  <2> SUFFICES ASSUME IInv, pc = "acting", ~safe, place # Bearer
               PROVE  confirmed
    BY DEF CookieChangesConfirmed
  <2>1. place \in {Session, Cookie} /\ carried[place] # None
    BY CredentialsAssumption DEF IInv, TypeOK, Accepting, HistoryCovers, UnderWay, Places,
                                 Bearer, Session, Cookie, Credentials
  <2>2. CsrfPasses(carried, safe, confirmed)
    BY DEF IInv, Accepting, UnderWay
  <2>. QED
    BY <2>1, <2>2 DEF CsrfPasses
<1>. QED
  BY <1>1, Invariance, PTL

\* The order in which AuthMiddleware tries the credentials loses no good one.
THEOREM GateFirstSteadyWins == Spec => []FirstSteadyWins
<1>1. IInv => FirstSteadyWins
  BY DEF IInv, NoneBefore, UnderWay, FirstSteadyWins
<1>. QED
  BY <1>1, Invariance, PTL
===============================================================================
