--------------------------- MODULE GraphBossProofs ---------------------------
(***************************************************************************)
(* Proofs about the boss and its remote manager, for any sections, any     *)
(* tables of managers, any number of deaths of the core and of signals.    *)
(*                                                                         *)
(* First the calls of the remote core (BossInv), then the shared table of  *)
(* loads (sums over finite sets, Loads), the types (Shape) and the search  *)
(* for a manager by priority (Faults).                                     *)
(***************************************************************************)
EXTENDS GraphBoss, FiniteSetTheorems, SequenceTheorems, WellFoundedInduction, TLAPS

\* The types of the boss's own state, but for the loads.
BossTyped ==
    /\ managers \in Tables
    /\ enabled \in [DOMAIN managers -> BOOLEAN] /\ ready \in BOOLEAN
    /\ pc \in [Sections -> {"idle", "commit", "reconfigure", "run", "remote", "decommit"}]
    /\ node \in [Sections -> Nat \ {0}]
    /\ coreLock \in Sections \cup {NoOne}
    /\ DOMAIN mgrIndex = Sections /\ DOMAIN configured = Sections

\* Callers do not overlap: a section is inside a call only with coreLock, and
\* the boss only before there are sections.
Serialised ==
    /\ \A s \in Sections : rpc[s] # "none" => coreLock = s /\ pc[s] = "remote"
    /\ \A s \in Sections : pc[s] # "idle" => ready
    /\ ready => rpc[Boss] = "returned"

\* The boss's INIT call has succeeded.
InitPassed == rpc[Boss] = "returned" /\ passed[Boss]

\* Nodes are placed on enabled managers, and the remote manager is enabled only
\* by its INIT, so no section calls the core without it.
Placed ==
    /\ \A m \in DOMAIN managers :
          enabled[m] /\ managers[m].core = Remote => ready /\ passed[Boss]
    /\ \A s \in Sections : \A n \in NodesOf(s) :
          configured[s][n] \/ pc[s] # "idle" =>
              mgrIndex[s][n] \in DOMAIN managers /\ enabled[mgrIndex[s][n]]
    /\ \A s \in Sections : rpc[s] # "none" => InitPassed
    /\ rpc[Boss] # "none" => func[Boss] = "INIT"

\* The stages of a restart, and what the device still holds.
Restarting ==
    /\ in_restart => \E t \in Callers : rpc[t] \in {"write", "read"}
    /\ \A t \in Callers :
          /\ rpc[t] \in {"close", "open"} => retries > 0
          /\ rpc[t] = "open" => device = "closed"
          /\ rpc[t] = "create" => device \in {"opened", "stale"}
    /\ device # "open" => request = << >> /\ replies = << >>

\* A connected core is initialised, or the first thing it will execute is its
\* INIT: it is the oldest request, or about to be.
InitFirst ==
    /\ ~InitPassed => \A i \in DOMAIN request : request[i][2] = "INIT"
    /\ InitPassed /\ device = "open" =>
          \/ inited
          \/ request # << >> /\ Head(request)[2] = "INIT"
          \/ request = << >> /\ in_restart /\ \E t \in Callers : rpc[t] = "write"
    /\ replies # << >> => inited
    /\ ~ranUninitialised

\* Without signals the device holds nothing but the request or the reply of the
\* caller that is waiting for it.
OnlyOwn ==
    signals = 0 =>
        /\ ~wrongReply
        /\ \A t \in Callers : rpc[t] = "read" /\ device = "open" =>
              \/ request = <<<<t, Calling(t)>>>> /\ replies = << >>
              \/ request = << >> /\ replies = <<<<t, Calling(t)>>>>
        /\ (\A t \in Callers : rpc[t] # "read") => request = << >> /\ replies = << >>

BossInv ==
    /\ RemoteTypeOK /\ BossTyped
    /\ Serialised /\ Placed /\ Restarting /\ InitFirst /\ OnlyOwn

-----------------------------------------------------------------------------
\* A nonempty set of numbers has a least element, so Min of it is one of it.
LEMMA MinIn ==
    ASSUME NEW S \in SUBSET Nat, S # {}
    PROVE  Min(S) \in S /\ \A y \in S : Min(S) <= y
<1> DEFINE R == OpToRel(<, Nat)
<1>1. IsWellFoundedOn(R, Nat)
      BY NatLessThanWellFounded
<1>2. \A x, y \in Nat : y < x => <<y, x>> \in R
      <2> SUFFICES ASSUME NEW x \in Nat, NEW y \in Nat, y < x
                   PROVE  <<y, x>> \in {ss \in Nat \X Nat : ss[1] < ss[2]}
          BY Zenon DEF OpToRel
      <2> QED
          OBVIOUS
<1> HIDE DEF R
<1>3. PICK x \in S : \A y \in S : ~(<<y, x>> \in R)
      BY <1>1, WFMin
<1>4. \A y \in S : x <= y
      <2> SUFFICES ASSUME NEW y \in S, ~(x <= y)
                   PROVE  FALSE
          OBVIOUS
      <2>1. x \in Nat /\ y \in Nat /\ y < x
          OBVIOUS
      <2>2. <<y, x>> \in R
          BY <2>1, <1>2
      <2> QED
          BY <2>2, <1>3
<1> QED
      BY <1>4 DEF Min

-----------------------------------------------------------------------------
\* Where a caller is inside the core's connection, and what its steps leave alone.
Active == {"write", "read", "close", "open", "create"}
bossVars == <<config, section, table, progress, coreLock, bounds>>

\* A caller that is inside the connection is there alone.  The boss is only there
\* before its INIT has passed, a section only afterwards.
LEMMA Alone ==
    ASSUME BossInv, NEW t \in Callers, rpc[t] \in Active
    PROVE  /\ \A u \in Callers : u # t => rpc[u] \in {"none", "returned"}
           /\ t = Boss => ~ready /\ ~InitPassed /\ func[t] = "INIT"
           /\ t # Boss => t \in Sections /\ ready /\ InitPassed
<1> USE BossAssumption
<1>1. rpc[t] # "none" /\ rpc[t] # "returned"
      BY DEF Active
<1>2. \A u \in Callers : u # Boss => u \in Sections
      BY DEF Sections
<1>3. t = Boss => ~ready /\ ~InitPassed /\ func[t] = "INIT"
      BY <1>1 DEF BossInv, Serialised, Placed, InitPassed
<1>4. t # Boss => t \in Sections /\ ready /\ InitPassed /\ coreLock = t
      BY <1>1, <1>2 DEF BossInv, Serialised, Placed
<1>5. ASSUME NEW u \in Callers, u # t, rpc[u] \notin {"none", "returned"}
      PROVE  FALSE
      <2>1. CASE t = Boss
            <3>1. u \in Sections /\ InitPassed
                  BY <1>2, <1>5, <2>1 DEF BossInv, Placed
            <3> QED
                  BY <3>1, <2>1, <1>3
      <2>2. CASE t # Boss /\ u = Boss
            BY <2>2, <1>4, <1>5 DEF InitPassed
      <2>3. CASE t # Boss /\ u # Boss
            BY <2>3, <1>2, <1>4, <1>5 DEF BossInv, Serialised
      <2> QED
            BY <2>1, <2>2, <2>3
<1> QED
      BY <1>3, <1>4, <1>5

\* Whatever a step of a call does to its own caller, the boss's invariants stay.
LEMMA CallKeepsBoss ==
    ASSUME BossInv, NEW t \in Callers, rpc[t] \in Active,
           NEW x \in Active \cup {"returned"}, NEW b \in BOOLEAN,
           rpc' = [rpc EXCEPT ![t] = x], passed' = [passed EXCEPT ![t] = b],
           func' = func, UNCHANGED bossVars
    PROVE  BossTyped' /\ Serialised' /\ Placed'
<1> USE BossAssumption
<1>1. /\ \A u \in Callers : u # t => rpc[u] \in {"none", "returned"}
      /\ t = Boss => ~ready /\ ~InitPassed /\ func[t] = "INIT"
      /\ t # Boss => t \in Sections /\ ready /\ InitPassed
      BY Alone
<1>2. /\ rpc \in [Callers -> {"none", "write", "read", "close", "open", "create", "returned"}]
      /\ passed \in [Callers -> BOOLEAN]
      BY DEF BossInv, RemoteTypeOK
<1>3. /\ rpc'[t] = x /\ x # "none" /\ \A u \in Callers : u # t => rpc'[u] = rpc[u]
      /\ passed'[t] = b /\ \A u \in Callers : u # t => passed'[u] = passed[u]
      BY <1>2 DEF Active
<1>4. \A u \in Sections : u \in Callers /\ u # Boss
      BY DEF Sections
<1>5. rpc[t] # "none"
      BY DEF Active
<1>6. /\ pc' = pc /\ coreLock' = coreLock /\ ready' = ready /\ enabled' = enabled
      /\ managers' = managers /\ configured' = configured /\ mgrIndex' = mgrIndex
      BY DEF bossVars, config, section, progress
<1>7. Serialised'
      <2>1. \A s \in Sections : rpc'[s] # "none" => rpc[s] # "none"
            BY <1>3, <1>4, <1>5
      <2>2. ready => rpc'[Boss] = "returned"
            BY <1>1, <1>3 DEF BossInv, Serialised
      <2> QED
            BY <1>6, <2>1, <2>2 DEF BossInv, Serialised
<1>8. InitPassed => InitPassed'
      BY <1>1, <1>3 DEF InitPassed
<1>9. \A s \in Sections : rpc'[s] # "none" => InitPassed'
      BY <1>3, <1>4, <1>5, <1>8 DEF BossInv, Placed
<1>10. rpc'[Boss] # "none" => func'[Boss] = "INIT"
      BY <1>1, <1>3 DEF BossInv, Placed
<1>11. ready /\ passed[Boss] => passed'[Boss]
      BY <1>1, <1>3
<1>12. Placed'
      BY <1>6, <1>9, <1>10, <1>11 DEF BossInv, Placed, NodesOf
<1>13. BossTyped'
      BY DEF BossInv, BossTyped, bossVars, config, section, progress
<1> QED
      BY <1>7, <1>12, <1>13

-----------------------------------------------------------------------------
\* What the driver does with requests and replies.
LEMMA AppendFacts ==
    ASSUME NEW S, NEW q \in Seq(S), NEW x \in S
    PROVE  /\ Append(q, x) \in Seq(S) /\ Append(q, x) # << >>
           /\ q = << >> => Append(q, x) = <<x>>
           /\ Head(Append(q, x)) = IF q = << >> THEN x ELSE Head(q)
           /\ \A i \in DOMAIN Append(q, x) :
                 Append(q, x)[i] = x \/ (i \in DOMAIN q /\ Append(q, x)[i] = q[i])
<1>1. /\ Append(q, x) \in Seq(S) /\ Append(q, x) # << >>
      /\ Len(Append(q, x)) = Len(q) + 1
      /\ \A i \in 1..Len(q) : Append(q, x)[i] = q[i]
      /\ Append(q, x)[Len(q) + 1] = x
      BY AppendProperties
<1>2. Len(q) \in Nat /\ DOMAIN q = 1..Len(q) /\ DOMAIN Append(q, x) = 1..(Len(q) + 1)
      BY <1>1, LenProperties
<1>3. Head(Append(q, x)) = IF q = << >> THEN x ELSE Head(q)
      BY HeadTailAppend
<1>4. q = << >> => Append(q, x) = <<x>>
      OBVIOUS
<1> QED
      BY <1>1, <1>2, <1>3, <1>4

LEMMA TailFacts ==
    ASSUME NEW S, NEW q \in Seq(S), q # << >>
    PROVE  /\ Tail(q) \in Seq(S) /\ Head(q) \in S
           /\ 1 \in DOMAIN q /\ Head(q) = q[1]
           /\ \A i \in DOMAIN Tail(q) : i + 1 \in DOMAIN q /\ Tail(q)[i] = q[i + 1]
<1>1. /\ Head(q) \in S /\ Tail(q) \in Seq(S) /\ Len(Tail(q)) = Len(q) - 1
      /\ \A i \in 1..Len(Tail(q)) : Tail(q)[i] = q[i + 1]
      BY HeadTailProperties
<1>2. Len(q) \in Nat \ {0} /\ DOMAIN q = 1..Len(q) /\ DOMAIN Tail(q) = 1..(Len(q) - 1)
      BY <1>1, LenProperties, EmptySeq
<1> QED
      BY <1>1, <1>2

LEMMA OneMessage == \A x : Head(<<x>>) = x /\ Tail(<<x>>) = << >>
OBVIOUS

LEMMA RpcTypes ==
    ASSUME BossInv
    PROVE  /\ device \in {"open", "stale", "opened", "closed", "freed"}
           /\ in_restart \in BOOLEAN
           /\ rpc \in [Callers -> {"none", "write", "read", "close", "open", "create",
                                   "returned"}]
           /\ func \in [Callers -> Funcs]
           /\ passed \in [Callers -> BOOLEAN]
           /\ request \in Seq(Callers \X Funcs) /\ replies \in Seq(Callers \X Funcs)
           /\ signals \in Nat
           /\ \A t \in Callers : Calling(t) \in Funcs
BY RemoteAssumption DEF BossInv, RemoteTypeOK, Calling, Funcs

\* A write or read that fails with ENXIO, EBADF or on freed memory.
LEMMA FailsInv ==
    ASSUME BossInv, NEW t \in Callers, rpc[t] \in {"write", "read"}, device # "open",
           NEW rc \in BOOLEAN, Fails(t, rc), crashed' \in BOOLEAN,
           UNCHANGED <<request, device, func, up, inited, replies, crashes, signals,
                       ranUninitialised, wrongReply, bossVars>>
    PROVE  BossInv'
<1> USE BossAssumption
<1>1. rpc[t] \in Active
      BY DEF Active
<1>2. /\ \A u \in Callers : u # t => rpc[u] \in {"none", "returned"}
      /\ t = Boss => ~ready /\ ~InitPassed /\ func[t] = "INIT"
      /\ t # Boss => t \in Sections /\ ready /\ InitPassed
      BY <1>1, Alone
<1>3. /\ device \in {"open", "stale", "opened", "closed", "freed"}
      /\ in_restart \in BOOLEAN
      /\ rpc \in [Callers -> {"none", "write", "read", "close", "open", "create", "returned"}]
      /\ func \in [Callers -> Funcs]
      /\ passed \in [Callers -> BOOLEAN]
      /\ request \in Seq(Callers \X Funcs) /\ replies \in Seq(Callers \X Funcs)
      /\ signals \in Nat
      /\ Calling(t) \in Funcs
      BY RpcTypes
<1>4. /\ \E x \in {"close", "returned"} : rpc' = [rpc EXCEPT ![t] = x]
      /\ in_restart' = FALSE /\ passed' = [passed EXCEPT ![t] = FALSE]
      /\ retries' \in {retries, Retries} /\ crashed' \in BOOLEAN
      /\ rpc'[t] = "close" => retries' = Retries
      /\ UNCHANGED <<request, device, func, up, inited, replies, crashes, signals,
                     ranUninitialised, wrongReply>>
      BY <1>3 DEF Fails
<1>5. PICK x \in {"close", "returned"} : rpc' = [rpc EXCEPT ![t] = x]
      BY <1>4
<1>6. rpc'[t] = x /\ \A u \in Callers : u # t => rpc'[u] = rpc[u]
      BY <1>3, <1>5
<1>7. BossTyped' /\ Serialised' /\ Placed'
      <2>1. x \in Active \cup {"returned"}
            BY DEF Active
      <2> QED
            BY <1>1, <1>4, <1>5, <2>1, CallKeepsBoss
<1>8. RemoteTypeOK'
      <2>1. rpc' \in [Callers -> {"none", "write", "read", "close", "open", "create",
                                  "returned"}]
            BY <1>3, <1>5
      <2>2. passed' \in [Callers -> BOOLEAN]
            BY <1>3, <1>4
      <2>3. retries' \in 0..Retries
            BY <1>4, RemoteAssumption DEF BossInv, RemoteTypeOK
      <2> QED
            BY <1>4, <2>1, <2>2, <2>3 DEF BossInv, RemoteTypeOK
<1>9. Restarting'
      BY <1>2, <1>4, <1>6, RemoteAssumption DEF BossInv, Restarting
<1>10. request = << >> /\ replies = << >>
      BY DEF BossInv, Restarting
<1>11. InitFirst'
      BY <1>4, <1>10 DEF BossInv, InitFirst
<1>12. OnlyOwn'
      BY <1>4, <1>10 DEF BossInv, OnlyOwn
<1> QED
      BY <1>7, <1>8, <1>9, <1>11, <1>12 DEF BossInv

LEMMA WriteInv ==
    ASSUME BossInv, NEW t \in Callers, Write(t), UNCHANGED bossVars
    PROVE  BossInv'
<1> USE BossAssumption
<1> DEFINE e == <<t, Calling(t)>>
<1>1. rpc[t] = "write" /\ rpc[t] \in Active
      BY DEF Write, Active
<1>2. /\ \A u \in Callers : u # t => rpc[u] \in {"none", "returned"}
      /\ t = Boss => ~ready /\ ~InitPassed /\ func[t] = "INIT"
      /\ t # Boss => t \in Sections /\ ready /\ InitPassed
      BY <1>1, Alone
<1>3. /\ device \in {"open", "stale", "opened", "closed", "freed"}
      /\ in_restart \in BOOLEAN
      /\ rpc \in [Callers -> {"none", "write", "read", "close", "open", "create", "returned"}]
      /\ func \in [Callers -> Funcs]
      /\ passed \in [Callers -> BOOLEAN]
      /\ request \in Seq(Callers \X Funcs) /\ replies \in Seq(Callers \X Funcs)
      /\ signals \in Nat
      /\ Calling(t) \in Funcs
      BY RpcTypes
<1>4. e \in Callers \X Funcs /\ e[2] = Calling(t)
      BY <1>3
<1> HIDE DEF e
<1>5. CASE device = "open"
      <2>1. /\ request' = Append(request, e) /\ rpc' = [rpc EXCEPT ![t] = "read"]
            /\ UNCHANGED <<device, in_restart, func, passed, retries, up, inited, replies,
                           crashes, signals, ranUninitialised, wrongReply, crashed>>
            BY <1>5 DEF Write, e
      <2>2. rpc'[t] = "read" /\ \A u \in Callers : u # t => rpc'[u] = rpc[u]
            BY <1>3, <2>1
      <2>3. /\ request' \in Seq(Callers \X Funcs) /\ request' # << >>
            /\ request = << >> => request' = <<e>>
            /\ Head(request') = IF request = << >> THEN e ELSE Head(request)
            /\ \A i \in DOMAIN request' :
                  request'[i] = e \/ (i \in DOMAIN request /\ request'[i] = request[i])
            BY <1>3, <1>4, <2>1, AppendFacts
      <2>4. BossTyped' /\ Serialised' /\ Placed'
            <3>1. passed' = [passed EXCEPT ![t] = passed[t]] /\ passed[t] \in BOOLEAN
                  BY <1>3, <2>1
            <3> QED
                  BY <1>1, <2>1, <3>1, CallKeepsBoss DEF Active
      <2>5. RemoteTypeOK'
            BY <1>3, <2>1, <2>3 DEF BossInv, RemoteTypeOK
      <2>6. Restarting'
            BY <1>2, <1>5, <2>1, <2>2 DEF BossInv, Restarting
      <2>7. Calling(t)' = Calling(t) /\ (InitPassed' <=> InitPassed)
            BY <1>1, <1>2, <2>1, <2>2 DEF Calling, InitPassed
      <2>8. InitFirst'
            <3>1. ~InitPassed => Calling(t) = "INIT"
                  BY <1>2 DEF Calling
            <3>2. ~InitPassed => \A i \in DOMAIN request' : request'[i][2] = "INIT"
                  BY <1>4, <2>3, <3>1 DEF BossInv, InitFirst
            <3>3. InitPassed => \/ inited
                                \/ request' # << >> /\ Head(request')[2] = "INIT"
                  BY <1>4, <2>3, <1>5 DEF BossInv, InitFirst, Calling
            <3> QED
                  BY <2>1, <2>7, <3>2, <3>3 DEF BossInv, InitFirst
      <2>9. OnlyOwn'
            <3>1. signals = 0 => request = << >> /\ replies = << >> /\ ~wrongReply
                  BY <1>1, <1>2 DEF BossInv, OnlyOwn
            <3>2. \A u \in Callers : rpc'[u] = "read" => u = t
                  BY <1>2, <2>2
            <3>3. signals = 0 => request' = <<<<t, Calling(t)'>>>> /\ replies' = << >>
                  BY <3>1, <2>1, <2>3, <2>7 DEF e
            <3> QED
                  BY <2>1, <2>2, <3>1, <3>2, <3>3 DEF OnlyOwn
      <2> QED
            BY <2>4, <2>5, <2>6, <2>8, <2>9 DEF BossInv
<1>6. CASE device # "open"
      BY <1>1, <1>6, FailsInv DEF Write, BossInv, RemoteTypeOK
<1> QED
      BY <1>5, <1>6

\* A reply is read: it can only be there if the core was initialised.
LEMMA ReadInv ==
    ASSUME BossInv, NEW t \in Callers, Read(t), UNCHANGED bossVars
    PROVE  BossInv'
<1> USE BossAssumption
<1>1. /\ rpc[t] = "read" /\ rpc[t] \in Active /\ device = "open" /\ replies # << >>
      /\ rpc' = [rpc EXCEPT ![t] = "returned"]
      /\ passed' = [passed EXCEPT ![t] = ~in_restart] /\ in_restart' = FALSE
      /\ replies' = Tail(replies)
      /\ wrongReply' = (wrongReply \/ Head(replies) # <<t, Calling(t)>>)
      /\ UNCHANGED <<device, func, retries, up, inited, request, crashes, signals,
                     ranUninitialised, crashed>>
      BY DEF Read, Active
<1>2. /\ \A u \in Callers : u # t => rpc[u] \in {"none", "returned"}
      /\ t = Boss => ~ready /\ ~InitPassed /\ func[t] = "INIT"
      /\ t # Boss => t \in Sections /\ ready /\ InitPassed
      BY <1>1, Alone
<1>3. /\ device \in {"open", "stale", "opened", "closed", "freed"}
      /\ in_restart \in BOOLEAN
      /\ rpc \in [Callers -> {"none", "write", "read", "close", "open", "create", "returned"}]
      /\ func \in [Callers -> Funcs]
      /\ passed \in [Callers -> BOOLEAN]
      /\ request \in Seq(Callers \X Funcs) /\ replies \in Seq(Callers \X Funcs)
      /\ signals \in Nat
      /\ Calling(t) \in Funcs
      BY RpcTypes
<1>4. rpc'[t] = "returned" /\ \A u \in Callers : u # t => rpc'[u] = rpc[u]
      BY <1>1, <1>3
<1>5. BossTyped' /\ Serialised' /\ Placed'
      <2>1. (~in_restart) \in BOOLEAN
            OBVIOUS
      <2> QED
            BY <1>1, <2>1, CallKeepsBoss
<1>6. Tail(replies) \in Seq(Callers \X Funcs)
      BY <1>1, <1>3, TailFacts
<1>7. RemoteTypeOK'
      <2>1. /\ rpc' \in [Callers -> {"none", "write", "read", "close", "open", "create",
                                     "returned"}]
            /\ passed' \in [Callers -> BOOLEAN]
            BY <1>1, <1>3
      <2>2. wrongReply' \in BOOLEAN /\ replies' \in Seq(Callers \X Funcs)
            BY <1>1, <1>6 DEF BossInv, RemoteTypeOK
      <2> QED
            BY <1>1, <2>1, <2>2 DEF BossInv, RemoteTypeOK
<1>8. Restarting'
      BY <1>1, <1>2, <1>4 DEF BossInv, Restarting
<1>9. inited
      BY <1>1 DEF BossInv, InitFirst
<1>10. InitFirst'
      <2>1. ~InitPassed' => ~InitPassed
            BY <1>1, <1>2, <1>4, <1>3 DEF InitPassed
      <2> QED
            BY <1>1, <1>9, <2>1 DEF BossInv, InitFirst
<1>11. OnlyOwn'
      <2>1. \A u \in Callers : rpc'[u] # "read"
            BY <1>2, <1>4
      <2>2. signals = 0 => request = << >> /\ replies = <<<<t, Calling(t)>>>> /\ ~wrongReply
            BY <1>1 DEF BossInv, OnlyOwn
      <2>3. signals = 0 => Head(replies) = <<t, Calling(t)>> /\ Tail(replies) = << >>
            BY <2>2, OneMessage
      <2> QED
            BY <1>1, <2>1, <2>2, <2>3 DEF OnlyOwn
<1> QED
      BY <1>5, <1>7, <1>8, <1>10, <1>11 DEF BossInv

\* A signal: what is in the device stays there, and INIT stays before the rest.
LEMMA InterruptedInv ==
    ASSUME BossInv, NEW t \in Callers, ReadInterrupted(t), UNCHANGED bossVars
    PROVE  BossInv'
<1> USE BossAssumption
<1>1. /\ rpc[t] = "read" /\ rpc[t] \in Active /\ device = "open"
      /\ rpc' = [rpc EXCEPT ![t] = "returned"]
      /\ passed' = [passed EXCEPT ![t] = FALSE] /\ in_restart' = FALSE
      /\ signals < MaxSignals /\ signals' = signals + 1
      /\ UNCHANGED <<device, func, retries, up, inited, request, replies, crashes,
                     ranUninitialised, wrongReply, crashed>>
      BY DEF ReadInterrupted, Fails, Active, remoteHistory
<1>2. /\ \A u \in Callers : u # t => rpc[u] \in {"none", "returned"}
      /\ t = Boss => ~ready /\ ~InitPassed /\ func[t] = "INIT"
      /\ t # Boss => t \in Sections /\ ready /\ InitPassed
      BY <1>1, Alone
<1>3. /\ device \in {"open", "stale", "opened", "closed", "freed"}
      /\ in_restart \in BOOLEAN
      /\ rpc \in [Callers -> {"none", "write", "read", "close", "open", "create", "returned"}]
      /\ func \in [Callers -> Funcs]
      /\ passed \in [Callers -> BOOLEAN]
      /\ request \in Seq(Callers \X Funcs) /\ replies \in Seq(Callers \X Funcs)
      /\ signals \in Nat
      /\ Calling(t) \in Funcs
      BY RpcTypes
<1>4. rpc'[t] = "returned" /\ \A u \in Callers : u # t => rpc'[u] = rpc[u]
      BY <1>1, <1>3
<1>5. BossTyped' /\ Serialised' /\ Placed'
      BY <1>1, CallKeepsBoss
<1>6. RemoteTypeOK'
      <2>1. /\ rpc' \in [Callers -> {"none", "write", "read", "close", "open", "create",
                                     "returned"}]
            /\ passed' \in [Callers -> BOOLEAN]
            BY <1>1, <1>3
      <2>2. signals' \in 0..MaxSignals
            BY <1>1, <1>3, RemoteAssumption
      <2> QED
            BY <1>1, <2>1, <2>2 DEF BossInv, RemoteTypeOK
<1>7. Restarting'
      BY <1>1, <1>2, <1>4 DEF BossInv, Restarting
<1>8. InitFirst'
      <2>1. InitPassed' => t # Boss /\ InitPassed
            BY <1>1, <1>2, <1>3, <1>4 DEF InitPassed
      <2>2. InitPassed => InitPassed'
            BY <1>2, <1>1, <1>3, <1>4 DEF InitPassed
      <2>3. \A u \in Callers : rpc[u] # "write"
            BY <1>1, <1>2
      <2> QED
            BY <1>1, <2>1, <2>2, <2>3 DEF BossInv, InitFirst
<1>9. OnlyOwn'
      BY <1>1, <1>3 DEF OnlyOwn
<1> QED
      BY <1>5, <1>6, <1>7, <1>8, <1>9 DEF BossInv

\* omaprpc_restart, its three steps.
LEMMA CloseInv ==
    ASSUME BossInv, NEW t \in Callers, RestartCloses(t), UNCHANGED bossVars
    PROVE  BossInv'
<1> USE BossAssumption
<1>1. /\ rpc[t] = "close" /\ rpc[t] \in Active
      /\ rpc' = [rpc EXCEPT ![t] = "open"] /\ device' = "closed"
      /\ request' = << >> /\ replies' = << >>
      /\ UNCHANGED <<in_restart, func, passed, retries, up, inited, crashes, signals,
                     ranUninitialised, wrongReply, crashed>>
      BY DEF RestartCloses, Active, remoteHistory
<1>2. /\ \A u \in Callers : u # t => rpc[u] \in {"none", "returned"}
      /\ t = Boss => ~ready /\ ~InitPassed /\ func[t] = "INIT"
      /\ t # Boss => t \in Sections /\ ready /\ InitPassed
      BY <1>1, Alone
<1>3. /\ device \in {"open", "stale", "opened", "closed", "freed"}
      /\ in_restart \in BOOLEAN
      /\ rpc \in [Callers -> {"none", "write", "read", "close", "open", "create", "returned"}]
      /\ func \in [Callers -> Funcs]
      /\ passed \in [Callers -> BOOLEAN]
      /\ request \in Seq(Callers \X Funcs) /\ replies \in Seq(Callers \X Funcs)
      /\ signals \in Nat
      /\ Calling(t) \in Funcs
      BY RpcTypes
<1>4. rpc'[t] = "open" /\ \A u \in Callers : u # t => rpc'[u] = rpc[u]
      BY <1>1, <1>3
<1>5. BossTyped' /\ Serialised' /\ Placed'
      <2>1. passed' = [passed EXCEPT ![t] = passed[t]] /\ passed[t] \in BOOLEAN
            BY <1>1, <1>3
      <2> QED
            BY <1>1, <2>1, CallKeepsBoss DEF Active
<1>6. RemoteTypeOK'
      <2>1. rpc' \in [Callers -> {"none", "write", "read", "close", "open", "create",
                                  "returned"}]
            BY <1>1, <1>3
      <2> QED
            BY <1>1, <2>1 DEF BossInv, RemoteTypeOK
<1>7. Restarting'
      BY <1>1, <1>2, <1>4 DEF BossInv, Restarting
<1>8. InitFirst'
      BY <1>1 DEF BossInv, InitFirst
<1>9. OnlyOwn'
      BY <1>1 DEF BossInv, OnlyOwn
<1> QED
      BY <1>5, <1>6, <1>7, <1>8, <1>9 DEF BossInv

LEMMA OpenInv ==
    ASSUME BossInv, NEW t \in Callers, RestartOpens(t), UNCHANGED bossVars
    PROVE  BossInv'
<1> USE BossAssumption
<1>1. /\ rpc[t] = "open" /\ rpc[t] \in Active
      /\ retries' = retries - 1
      /\ \/ rpc' = [rpc EXCEPT ![t] = "create"] /\ device' = "opened"
         \/ rpc' = [rpc EXCEPT ![t] = "open"] /\ device' = device /\ retries > 1
         \/ rpc' = [rpc EXCEPT ![t] = "returned"] /\ device' = device
      /\ UNCHANGED <<in_restart, func, passed, up, inited, request, replies, crashes,
                     signals, ranUninitialised, wrongReply, crashed>>
      BY DEF RestartOpens, Active, remote, remoteHistory
<1>2. /\ \A u \in Callers : u # t => rpc[u] \in {"none", "returned"}
      /\ t = Boss => ~ready /\ ~InitPassed /\ func[t] = "INIT"
      /\ t # Boss => t \in Sections /\ ready /\ InitPassed
      BY <1>1, Alone
<1>3. /\ device \in {"open", "stale", "opened", "closed", "freed"}
      /\ in_restart \in BOOLEAN
      /\ rpc \in [Callers -> {"none", "write", "read", "close", "open", "create", "returned"}]
      /\ func \in [Callers -> Funcs]
      /\ passed \in [Callers -> BOOLEAN]
      /\ request \in Seq(Callers \X Funcs) /\ replies \in Seq(Callers \X Funcs)
      /\ signals \in Nat
      /\ Calling(t) \in Funcs
      BY RpcTypes
<1>4. device = "closed" /\ request = << >> /\ replies = << >>
      BY <1>1 DEF BossInv, Restarting
<1>5. PICK x \in {"create", "open", "returned"} :
          /\ rpc' = [rpc EXCEPT ![t] = x]
          /\ device' = IF x = "create" THEN "opened" ELSE "closed"
      BY <1>1, <1>4
<1>6. rpc'[t] = x /\ \A u \in Callers : u # t => rpc'[u] = rpc[u]
      BY <1>3, <1>5
<1>7. BossTyped' /\ Serialised' /\ Placed'
      <2>1. passed' = [passed EXCEPT ![t] = passed[t]] /\ passed[t] \in BOOLEAN
            BY <1>1, <1>3
      <2>2. x \in Active \cup {"returned"}
            BY DEF Active
      <2> QED
            BY <1>1, <1>5, <2>1, <2>2, CallKeepsBoss
<1>8. RemoteTypeOK'
      <2>1. rpc' \in [Callers -> {"none", "write", "read", "close", "open", "create",
                                  "returned"}]
            BY <1>5, <1>3
      <2>2. retries' \in 0..Retries
            BY <1>1, RemoteAssumption DEF BossInv, RemoteTypeOK, Restarting
      <2> QED
            BY <1>1, <1>5, <2>1, <2>2 DEF BossInv, RemoteTypeOK
<1>9. Restarting'
      <2>1. ~in_restart
            BY <1>1, <1>2 DEF BossInv, Restarting
      <2> QED
            <3>1. retries' \in Int /\ retries \in Int
                  BY <1>1, RemoteAssumption DEF BossInv, RemoteTypeOK
            <3>2. x = "open" => retries' > 0
                  BY <1>1, <1>4, <1>3, <1>6, <3>1
            <3>3. \A u \in Callers : rpc'[u] \in Active => u = t
                  BY <1>2, <1>6 DEF Active
            <3> QED
                  BY <1>1, <1>4, <1>5, <1>6, <2>1, <3>2, <3>3 DEF Restarting, Active
<1>10. InitFirst'
      BY <1>1, <1>4, <1>5 DEF BossInv, InitFirst
<1>11. OnlyOwn'
      BY <1>1, <1>4, <1>5 DEF BossInv, OnlyOwn
<1> QED
      BY <1>7, <1>8, <1>9, <1>10, <1>11 DEF BossInv

LEMMA CreateInv ==
    ASSUME BossInv, NEW t \in Callers, RestartCreates(t), UNCHANGED bossVars
    PROVE  BossInv'
<1> USE BossAssumption
<1>1. /\ rpc[t] = "create" /\ rpc[t] \in Active
      /\ UNCHANGED <<func, passed, retries, up, inited, request, replies, crashes, signals,
                     ranUninitialised, wrongReply, crashed>>
      BY DEF RestartCreates, Active, remote, remoteHistory
<1>2. /\ \A u \in Callers : u # t => rpc[u] \in {"none", "returned"}
      /\ t = Boss => ~ready /\ ~InitPassed /\ func[t] = "INIT"
      /\ t # Boss => t \in Sections /\ ready /\ InitPassed
      BY <1>1, Alone
<1>3. /\ device \in {"open", "stale", "opened", "closed", "freed"}
      /\ in_restart \in BOOLEAN
      /\ rpc \in [Callers -> {"none", "write", "read", "close", "open", "create", "returned"}]
      /\ func \in [Callers -> Funcs]
      /\ passed \in [Callers -> BOOLEAN]
      /\ request \in Seq(Callers \X Funcs) /\ replies \in Seq(Callers \X Funcs)
      /\ signals \in Nat
      /\ Calling(t) \in Funcs
      BY RpcTypes
<1>4. /\ device \in {"opened", "stale"} /\ request = << >> /\ replies = << >>
      /\ ~in_restart
      BY <1>1, <1>2 DEF BossInv, Restarting
<1>5. PICK x \in {"write", "returned"} :
          /\ rpc' = [rpc EXCEPT ![t] = x]
          /\ x = "write" => in_restart' = TRUE /\ device' = "open"
          /\ x = "returned" => in_restart' = FALSE /\ device' = "freed"
      <2>1. CASE device = "opened"
            <3>1. /\ rpc' = [rpc EXCEPT ![t] = "write"]
                  /\ in_restart' = TRUE /\ device' = "open"
                  BY <2>1 DEF RestartCreates
            <3> QED
                  BY <3>1
      <2>2. CASE device = "stale"
            <3>1. /\ rpc' = [rpc EXCEPT ![t] = "returned"]
                  /\ in_restart' = in_restart /\ device' = "freed"
                  BY <2>2 DEF RestartCreates
            <3>2. in_restart = FALSE
                  BY <1>3, <1>4
            <3> QED
                  BY <3>1, <3>2
      <2> QED
            BY <1>4, <2>1, <2>2
<1>6. rpc'[t] = x /\ \A u \in Callers : u # t => rpc'[u] = rpc[u]
      BY <1>3, <1>5
<1>7. BossTyped' /\ Serialised' /\ Placed'
      <2>1. passed' = [passed EXCEPT ![t] = passed[t]] /\ passed[t] \in BOOLEAN
            BY <1>1, <1>3
      <2>2. x \in Active \cup {"returned"}
            BY DEF Active
      <2> QED
            BY <1>1, <1>5, <2>1, <2>2, CallKeepsBoss
<1>8. RemoteTypeOK'
      <2>1. rpc' \in [Callers -> {"none", "write", "read", "close", "open", "create",
                                  "returned"}]
            BY <1>5, <1>3
      <2>2. device' \in {"open", "freed"} /\ in_restart' \in BOOLEAN
            BY <1>5
      <2> QED
            BY <1>1, <2>1, <2>2 DEF BossInv, RemoteTypeOK
<1>9. Restarting'
      BY <1>1, <1>2, <1>4, <1>5, <1>6 DEF Restarting
<1>10. InitFirst'
      <2>1. x = "write" => in_restart' /\ \E u \in Callers : rpc'[u] = "write"
            BY <1>5, <1>6
      <2>2. x = "returned" => device' # "open"
            BY <1>5
      <2>3. request' = << >> /\ replies' = << >> /\ ~ranUninitialised'
            BY <1>1, <1>4 DEF BossInv, InitFirst
      <2> QED
            BY <2>1, <2>2, <2>3 DEF InitFirst
<1>11. OnlyOwn'
      BY <1>1, <1>2, <1>4, <1>6 DEF BossInv, OnlyOwn
<1> QED
      BY <1>7, <1>8, <1>9, <1>10, <1>11 DEF BossInv

\* A step of the core or of its driver leaves the callers and the boss alone.
LEMMA CoreKeepsBoss ==
    ASSUME BossInv, UNCHANGED <<call, bossVars>>
    PROVE  BossTyped' /\ Serialised' /\ Placed' /\ (InitPassed' <=> InitPassed)
<1>1. /\ rpc' = rpc /\ passed' = passed /\ func' = func
      /\ pc' = pc /\ coreLock' = coreLock /\ ready' = ready /\ enabled' = enabled
      /\ managers' = managers /\ configured' = configured /\ mgrIndex' = mgrIndex
      /\ node' = node
      BY DEF call, bossVars, config, section, progress
<1>2. BossTyped'
      BY <1>1 DEF BossInv, BossTyped
<1>3. InitPassed' <=> InitPassed
      BY <1>1 DEF InitPassed
<1>4. Serialised'
      BY <1>1 DEF BossInv, Serialised
<1>5. Placed'
      BY <1>1, <1>3 DEF BossInv, Placed, NodesOf
<1> QED
      BY <1>2, <1>3, <1>4, <1>5

\* The core executes a request: an EXEC is the oldest one only if INIT was executed.
LEMMA ServeInv ==
    ASSUME BossInv, Serve, UNCHANGED bossVars
    PROVE  BossInv'
<1> DEFINE r == Head(request)
<1>1. /\ device = "open" /\ request # << >>
      /\ request' = Tail(request) /\ replies' = Append(replies, r)
      /\ inited' = (inited \/ r[2] = "INIT")
      /\ ranUninitialised' = (ranUninitialised \/ (r[2] = "EXEC" /\ ~inited))
      /\ UNCHANGED <<device, in_restart, rpc, func, passed, retries, up, crashes, signals,
                     wrongReply, crashed>>
      /\ UNCHANGED call
      BY DEF Serve, call
<1>2. BossTyped' /\ Serialised' /\ Placed' /\ (InitPassed' <=> InitPassed)
      BY <1>1, CoreKeepsBoss
<1>3. request \in Seq(Callers \X Funcs) /\ replies \in Seq(Callers \X Funcs)
      BY RpcTypes
<1>4. /\ Tail(request) \in Seq(Callers \X Funcs) /\ r \in Callers \X Funcs
      /\ 1 \in DOMAIN request /\ r = request[1]
      /\ \A i \in DOMAIN Tail(request) :
            i + 1 \in DOMAIN request /\ Tail(request)[i] = request[i + 1]
      BY <1>1, <1>3, TailFacts
<1> HIDE DEF r
<1>5. r[2] \in {"INIT", "EXEC"}
      BY <1>4 DEF Funcs
<1>6. replies' \in Seq(Callers \X Funcs) /\ (replies = << >> => replies' = <<r>>)
      BY <1>1, <1>3, <1>4, AppendFacts
<1>7. RemoteTypeOK'
      BY <1>1, <1>4, <1>6 DEF BossInv, RemoteTypeOK
<1>8. Restarting'
      BY <1>1 DEF BossInv, Restarting
<1>9. InitFirst'
      <2>1. r[2] = "EXEC" => inited
            <3>1. r[2] = "EXEC" => InitPassed
                  BY <1>4 DEF BossInv, InitFirst
            <3> QED
                  BY <1>1, <3>1 DEF BossInv, InitFirst, r
      <2>2. inited'
            BY <1>1, <1>5, <2>1
      <2>3. ~InitPassed => \A i \in DOMAIN request' : request'[i][2] = "INIT"
            BY <1>1, <1>4 DEF BossInv, InitFirst
      <2> QED
            BY <1>1, <1>2, <2>1, <2>2, <2>3 DEF BossInv, InitFirst
<1>10. OnlyOwn'
      <2> SUFFICES ASSUME signals = 0
                   PROVE  OnlyOwn'
            BY <1>1 DEF OnlyOwn
      <2>1. PICK t \in Callers : rpc[t] = "read"
            BY <1>1 DEF BossInv, OnlyOwn
      <2>2. request = <<<<t, Calling(t)>>>> /\ replies = << >> /\ ~wrongReply
            BY <1>1, <2>1 DEF BossInv, OnlyOwn
      <2>3. request' = << >> /\ replies' = <<<<t, Calling(t)>>>>
            BY <1>1, <1>6, <2>2, OneMessage DEF r
      <2>4. \A u \in Callers : rpc'[u] = "read" => u = t
            BY <1>1, <2>1, Alone DEF Active
      <2>5. Calling(t)' = Calling(t)
            BY <1>1 DEF Calling
      <2> QED
            BY <1>1, <2>1, <2>2, <2>3, <2>4, <2>5 DEF OnlyOwn
<1> QED
      BY <1>2, <1>7, <1>8, <1>9, <1>10 DEF BossInv

\* The core dies, and comes back.
LEMMA DieInv ==
    ASSUME BossInv, Die \/ Reboot, UNCHANGED bossVars
    PROVE  BossInv'
<1>1. /\ UNCHANGED call
      /\ UNCHANGED <<in_restart, rpc, func, passed, retries, signals, ranUninitialised,
                     wrongReply, crashed>>
      /\ crashes' \in 0..MaxCrashes /\ up' \in BOOLEAN
      <2>1. crashes \in 0..MaxCrashes /\ up \in BOOLEAN
            BY DEF BossInv, RemoteTypeOK
      <2>2. CASE Die
            <3>1. /\ UNCHANGED <<in_restart, call, signals, remoteHistory>>
                  /\ crashes < MaxCrashes /\ crashes' = crashes + 1 /\ up' = FALSE
                  BY <2>2 DEF Die
            <3>2. crashes' \in 0..MaxCrashes
                  BY <2>1, <3>1, RemoteAssumption
            <3> QED
                  BY <3>1, <3>2 DEF call, remoteHistory
      <2>3. CASE Reboot
            <3>1. UNCHANGED <<device, in_restart, call, inited, request, replies, crashes,
                              signals, remoteHistory>> /\ up' = TRUE
                  BY <2>3 DEF Reboot
            <3> QED
                  BY <2>1, <3>1 DEF call, remoteHistory
      <2> QED
            BY <2>2, <2>3
<1>2. \/ inited' = inited /\ device' = device /\ request' = request /\ replies' = replies
      \/ /\ inited' = FALSE /\ request' = << >> /\ replies' = << >>
         /\ device' = IF device \in {"open", "opened"} THEN "stale" ELSE device
      BY DEF Die, Reboot
<1>3. BossTyped' /\ Serialised' /\ Placed' /\ (InitPassed' <=> InitPassed)
      BY <1>1, CoreKeepsBoss
<1>4. CASE inited' = inited /\ device' = device /\ request' = request /\ replies' = replies
      <2>1. RemoteTypeOK'
            BY <1>1, <1>4 DEF BossInv, RemoteTypeOK
      <2>2. Restarting'
            BY <1>1, <1>4 DEF BossInv, Restarting
      <2>3. InitFirst'
            BY <1>1, <1>3, <1>4 DEF BossInv, InitFirst
      <2>4. OnlyOwn'
            BY <1>1, <1>4 DEF BossInv, OnlyOwn, Calling
      <2> QED
            BY <1>3, <2>1, <2>2, <2>3, <2>4 DEF BossInv
<1>5. CASE /\ inited' = FALSE /\ request' = << >> /\ replies' = << >>
           /\ device' = IF device \in {"open", "opened"} THEN "stale" ELSE device
      <2>1. RemoteTypeOK'
            <3>1. device' \in {"open", "stale", "opened", "closed", "freed"}
                  BY <1>5, RpcTypes
            <3>2. << >> \in Seq(Callers \X Funcs)
                  BY EmptySeq
            <3> QED
                  BY <1>1, <1>5, <3>1, <3>2 DEF BossInv, RemoteTypeOK
      <2>2. Restarting'
            BY <1>1, <1>5 DEF BossInv, Restarting
      <2>3. InitFirst'
            BY <1>1, <1>3, <1>5 DEF BossInv, InitFirst
      <2>4. OnlyOwn'
            BY <1>1, <1>5 DEF BossInv, OnlyOwn
      <2> QED
            BY <1>3, <2>1, <2>2, <2>3, <2>4 DEF BossInv
<1> QED
      BY <1>2, <1>4, <1>5

-----------------------------------------------------------------------------
\* The steps of the boss.  What the device and the core hold is not their business.
LEMMA BossKeepsRemote ==
    ASSUME BossInv, UNCHANGED remoteVars, BossTyped', Serialised', Placed'
    PROVE  BossInv'
<1>1. UNCHANGED <<device, in_restart, rpc, func, passed, retries, up, inited, request,
                  replies, crashes, signals, ranUninitialised, wrongReply, crashed>>
      BY DEF remoteVars, call, remote, remoteHistory
<1>2. RemoteTypeOK'
      BY <1>1 DEF BossInv, RemoteTypeOK
<1>3. Restarting'
      BY <1>1 DEF BossInv, Restarting
<1>4. InitFirst'
      BY <1>1 DEF BossInv, InitFirst, InitPassed
<1>5. OnlyOwn'
      BY <1>1 DEF BossInv, OnlyOwn, Calling
<1> QED
      BY <1>2, <1>3, <1>4, <1>5 DEF BossInv

\* The search for a manager finds an enabled one that has the kernel, or none.
LEMMA ChoiceIsEnabled ==
    ASSUME BossTyped, NEW s, NEW n, Choice(s, n) # 0
    PROVE  /\ Choice(s, n) \in DOMAIN managers /\ enabled[Choice(s, n)]
           /\ Kernel(s, n) \in managers[Choice(s, n)].kernels
<1> USE BossAssumption
<1> DEFINE k == Kernel(s, n)
           a == affinity[s][n]
           byAffinity == {m \in DOMAIN managers : managers[m].core = a /\ Supports(m, k)}
           byPriority == {i \in 1..Len(managers) :
                             Tried[i] \in DOMAIN managers /\ Supports(Tried[i], k)}
<1>1. DOMAIN managers \subseteq Nat /\ 1..Len(managers) \subseteq Nat
      BY DEF BossTyped
<1>2. byAffinity # {} => Min(byAffinity) \in byAffinity
      BY <1>1, MinIn
<1>3. byPriority # {} => Min(byPriority) \in byPriority
      BY <1>1, MinIn
<1>4. ByAffinity(a, k) # 0 =>
          /\ ByAffinity(a, k) \in DOMAIN managers /\ enabled[ByAffinity(a, k)]
          /\ k \in managers[ByAffinity(a, k)].kernels
      BY <1>2 DEF ByAffinity, Supports
<1>5. ByPriority(k) # 0 =>
          /\ ByPriority(k) \in DOMAIN managers /\ enabled[ByPriority(k)]
          /\ k \in managers[ByPriority(k)].kernels
      BY <1>3 DEF ByPriority, Supports
<1> QED
      BY <1>4, <1>5 DEF Choice

\* DVP_ConfigureNodes: what it leaves configured is on an enabled manager, and the
\* section goes on only if that is every node of it.
LEMMA ConfigureFacts ==
    ASSUME BossInv, NEW s \in Sections, NEW force \in BOOLEAN, ConfigureNodes(s, force),
           managers' = managers, enabled' = enabled
    PROVE  /\ DOMAIN mgrIndex' = Sections /\ DOMAIN configured' = Sections
           /\ \E p \in {"idle", "commit"} : pc' = [pc EXCEPT ![s] = p]
           /\ \A u \in Sections : u # s =>
                 mgrIndex'[u] = mgrIndex[u] /\ configured'[u] = configured[u]
           /\ \A n \in NodesOf(s) : configured'[s][n] \/ pc'[s] # "idle" =>
                 mgrIndex'[s][n] \in DOMAIN managers /\ enabled[mgrIndex'[s][n]]
<1> USE BossAssumption
<1> DEFINE todo == {n \in NodesOf(s) : ~configured[s][n] \/ force}
           choice == [n \in todo |-> Choice(s, n)]
           unplaced == {n \in todo : choice[n] = 0}
           placed == {n \in todo : \A u \in unplaced : n < u}
<1>1. /\ mgrIndex' = [mgrIndex EXCEPT ![s] =
              [n \in NodesOf(s) |-> IF n \in placed THEN choice[n] ELSE @[n]]]
      /\ configured' = [configured EXCEPT ![s] =
              [n \in NodesOf(s) |-> @[n] \/ n \in placed]]
      /\ pc' = [pc EXCEPT ![s] = IF unplaced = {} THEN "commit" ELSE "idle"]
      BY DEF ConfigureNodes
<1>2. DOMAIN mgrIndex = Sections /\ DOMAIN configured = Sections
      BY DEF BossInv, BossTyped
<1>3. /\ DOMAIN mgrIndex' = Sections /\ DOMAIN configured' = Sections
      /\ \A u \in Sections : u # s =>
            mgrIndex'[u] = mgrIndex[u] /\ configured'[u] = configured[u]
      BY <1>1, <1>2
<1>4. \A n \in placed : choice[n] # 0 /\ choice[n] = Choice(s, n)
      <2> SUFFICES ASSUME NEW n \in placed, choice[n] = 0
                   PROVE  FALSE
            OBVIOUS
      <2>1. n \in unplaced
            OBVIOUS
      <2>2. n \in Nat
            BY DEF NodesOf
      <2> QED
            BY <2>1, <2>2
<1>5. \A n \in NodesOf(s) :
          /\ mgrIndex'[s][n] = IF n \in placed THEN choice[n] ELSE mgrIndex[s][n]
          /\ configured'[s][n] = (configured[s][n] \/ n \in placed)
      BY <1>1, <1>2
<1>6. pc'[s] = IF unplaced = {} THEN "commit" ELSE "idle"
      BY <1>1 DEF BossInv, BossTyped
<1>7. pc'[s] # "idle" => placed = todo
      BY <1>6
<1>8. ASSUME NEW n \in NodesOf(s), configured'[s][n] \/ pc'[s] # "idle"
      PROVE  mgrIndex'[s][n] \in DOMAIN managers /\ enabled[mgrIndex'[s][n]]
      <2>1. CASE n \in placed
            <3>1. mgrIndex'[s][n] = Choice(s, n) /\ Choice(s, n) # 0
                  BY <1>4, <1>5, <2>1
            <3> QED
                  BY <3>1, ChoiceIsEnabled DEF BossInv
      <2>2. CASE n \notin placed
            <3>1. configured[s][n]
                  BY <1>5, <1>7, <1>8, <2>2
            <3>2. mgrIndex'[s][n] = mgrIndex[s][n]
                  BY <1>5, <2>2
            <3> QED
                  BY <3>1, <3>2 DEF BossInv, Placed
      <2> QED
            BY <2>1, <2>2
<1> QED
      BY <1>1, <1>3, <1>8

\* A section goes on without calling the core.
LEMMA SectionStep ==
    ASSUME BossInv, NEW s \in Sections, pc[s] \notin {"idle", "remote"},
           NEW p \in {"idle", "reconfigure", "run", "decommit"},
           pc' = [pc EXCEPT ![s] = p], node' \in [Sections -> Nat \ {0}],
           UNCHANGED <<remoteVars, config, section>>,
           coreLock' \in {coreLock, s}, coreLock # coreLock' => coreLock = NoOne
    PROVE  BossInv'
<1> USE BossAssumption
<1>1. /\ ready' = ready /\ enabled' = enabled /\ managers' = managers
      /\ configured' = configured /\ mgrIndex' = mgrIndex
      /\ rpc' = rpc /\ func' = func /\ passed' = passed
      BY DEF config, section, remoteVars, call
<1>2. pc \in [Sections -> {"idle", "commit", "reconfigure", "run", "remote", "decommit"}]
      BY DEF BossInv, BossTyped
<1>3. pc'[s] = p /\ \A u \in Sections : u # s => pc'[u] = pc[u]
      BY <1>2
<1>4. rpc[s] = "none" /\ ready
      BY DEF BossInv, Serialised
<1>5. BossTyped'
      BY <1>1, <1>2 DEF BossInv, BossTyped
<1>6. Serialised'
      <2>1. ASSUME NEW u \in Sections, rpc[u] # "none"
            PROVE  coreLock' = u /\ pc'[u] = "remote"
            <3>1. u # s /\ coreLock = u /\ u # NoOne
                  BY <1>4, <2>1 DEF BossInv, Serialised, Sections
            <3> QED
                  BY <1>3, <2>1, <3>1 DEF BossInv, Serialised
      <2> QED
            BY <1>1, <1>4, <2>1 DEF BossInv, Serialised
<1>7. Placed'
      <2>1. \A u \in Sections : pc'[u] # "idle" => pc[u] # "idle"
            BY <1>3
      <2> QED
            BY <1>1, <2>1 DEF BossInv, Placed, NodesOf, InitPassed
<1> QED
      BY <1>5, <1>6, <1>7, BossKeepsRemote

\* The nodes a manager runs at once can be counted.
LEMMA GroupCount ==
    ASSUME BossInv, NEW s \in Sections
    PROVE  /\ Cardinality(Group(s)) \in Nat
           /\ [node EXCEPT ![s] = @ + Cardinality(Group(s))] \in [Sections -> Nat \ {0}]
<1>1. Group(s) \subseteq 1..Len(Nodes[s]) /\ Len(Nodes[s]) \in Nat
      BY BossAssumption DEF Group, NodesOf
<1>2. IsFiniteSet(1..Len(Nodes[s]))
      BY <1>1, FS_Interval
<1>3. IsFiniteSet(Group(s))
      BY <1>1, <1>2, FS_Subset
<1>4. Cardinality(Group(s)) \in Nat
      BY <1>3, FS_CardinalityType
<1> QED
      BY <1>4 DEF BossInv, BossTyped

LEMMA LocalStepInv ==
    ASSUME BossInv, NEW s \in Sections,
           \/ CommitLoad(s) \/ DecommitLoad(s) \/ RunOut(s)
           \/ \E k \in 0..Len(Nodes[s]) : RunLocal(s, k)
    PROVE  BossInv'
<1>1. node \in [Sections -> Nat \ {0}]
      BY DEF BossInv, BossTyped
<1>2. CASE CommitLoad(s)
      <2>1. /\ pc[s] = "commit" /\ UNCHANGED <<remoteVars, config, section, node, coreLock>>
            /\ \E p \in {"run", "reconfigure"} : pc' = [pc EXCEPT ![s] = p]
            BY <1>2 DEF CommitLoad
      <2> QED
            BY <1>1, <2>1, SectionStep
<1>3. CASE DecommitLoad(s)
      <2>1. /\ pc[s] \in {"run", "decommit"} /\ pc' = [pc EXCEPT ![s] = "idle"]
            /\ UNCHANGED <<remoteVars, config, section, node, coreLock>>
            BY <1>3 DEF DecommitLoad
      <2> QED
            BY <1>1, <2>1, SectionStep
<1>4. CASE RunOut(s)
      <2>1. /\ pc[s] \in {"run", "decommit"} /\ pc' = [pc EXCEPT ![s] = "decommit"]
            /\ UNCHANGED <<remoteVars, config, section, node, coreLock>>
            BY <1>4 DEF RunOut
      <2> QED
            BY <1>1, <2>1, SectionStep
<1>5. ASSUME NEW k \in 0..Len(Nodes[s]), RunLocal(s, k)
      PROVE  BossInv'
      <2>1. /\ pc[s] = "run" /\ UNCHANGED <<remoteVars, config, section, coreLock>>
            /\ node' = [node EXCEPT ![s] = @ + Cardinality(Group(s))]
            /\ \E p \in {"run", "decommit"} : pc' = [pc EXCEPT ![s] = p]
            BY <1>5 DEF RunLocal, GroupDone
      <2> QED
            BY <2>1, GroupCount, SectionStep
<1> QED
      BY <1>2, <1>3, <1>4, <1>5

\* A section is configured, for the first time or again.
LEMMA ConfigureInv ==
    ASSUME BossInv, NEW s \in Sections, Process(s) \/ Reconfigure(s)
    PROVE  BossInv'
<1> USE BossAssumption
<1>1. PICK force \in BOOLEAN : ConfigureNodes(s, force)
      BY DEF Process, Reconfigure
<1>2. /\ pc[s] \in {"idle", "reconfigure"}
      /\ UNCHANGED <<remoteVars, config, coreLock>>
      /\ pc[s] = "idle" => ready
      /\ node' = [node EXCEPT ![s] = 1] \/ node' = node
      BY DEF Process, Reconfigure, Start
<1>3. /\ ready' = ready /\ enabled' = enabled /\ managers' = managers
      /\ rpc' = rpc /\ func' = func /\ passed' = passed
      BY <1>2 DEF config, remoteVars, call
<1>4. /\ DOMAIN mgrIndex' = Sections /\ DOMAIN configured' = Sections
      /\ \E p \in {"idle", "commit"} : pc' = [pc EXCEPT ![s] = p]
      /\ \A u \in Sections : u # s =>
            mgrIndex'[u] = mgrIndex[u] /\ configured'[u] = configured[u]
      /\ \A n \in NodesOf(s) : configured'[s][n] \/ pc'[s] # "idle" =>
            mgrIndex'[s][n] \in DOMAIN managers /\ enabled[mgrIndex'[s][n]]
      BY <1>1, <1>3, ConfigureFacts
<1>5. pc \in [Sections -> {"idle", "commit", "reconfigure", "run", "remote", "decommit"}]
      BY DEF BossInv, BossTyped
<1>6. PICK p \in {"idle", "commit"} :
          pc' = [pc EXCEPT ![s] = p]
      BY <1>4
<1>7. pc'[s] = p /\ \A u \in Sections : u # s => pc'[u] = pc[u]
      BY <1>5, <1>6
<1>8. rpc[s] = "none" /\ ready
      BY <1>2 DEF BossInv, Serialised
<1>9. BossTyped'
      <2>1. node' \in [Sections -> Nat \ {0}]
            <3> HIDE BossAssumption
            <3> QED
                  BY <1>2 DEF BossInv, BossTyped
      <2> QED
            BY <1>2, <1>3, <1>4, <1>5, <1>6, <2>1 DEF BossInv, BossTyped
<1>10. Serialised'
      BY <1>2, <1>3, <1>7, <1>8 DEF BossInv, Serialised
<1>11. Placed'
      <2>1. ASSUME NEW u \in Sections, NEW n \in NodesOf(u), configured'[u][n] \/ pc'[u] # "idle"
            PROVE  mgrIndex'[u][n] \in DOMAIN managers /\ enabled[mgrIndex'[u][n]]
            <3>1. CASE u = s
                  BY <1>4, <2>1, <3>1
            <3>2. CASE u # s
                  BY <1>4, <1>7, <2>1, <3>2 DEF BossInv, Placed
            <3> QED
                  BY <3>1, <3>2
      <2> QED
            BY <1>3, <2>1 DEF BossInv, Placed, NodesOf, InitPassed
<1> QED
      BY <1>2, <1>9, <1>10, <1>11, BossKeepsRemote

LEMMA UnchangedInv ==
    ASSUME BossInv, UNCHANGED <<remoteVars, config, section, progress, coreLock>>
    PROVE  BossInv'
<1>1. /\ ready' = ready /\ enabled' = enabled /\ managers' = managers /\ pc' = pc
      /\ configured' = configured /\ mgrIndex' = mgrIndex /\ node' = node
      /\ rpc' = rpc /\ func' = func /\ passed' = passed /\ coreLock' = coreLock
      BY DEF config, section, progress, remoteVars, call
<1>2. BossTyped' /\ Serialised' /\ Placed'
      BY <1>1 DEF BossInv, BossTyped, Serialised, Placed, NodesOf, InitPassed
<1> QED
      BY <1>2, BossKeepsRemote

\* DVP_KernelGraphBossInit: the INIT call and its end.
LEMMA ManagerInitInv ==
    ASSUME BossInv, ManagerInit
    PROVE  BossInv'
<1> USE BossAssumption
<1>1. /\ ~ready /\ rpc[Boss] = "none"
      /\ rpc' = [rpc EXCEPT ![Boss] = "write"]
      /\ func' = [func EXCEPT ![Boss] = "INIT"]
      /\ passed' = [passed EXCEPT ![Boss] = FALSE]
      /\ UNCHANGED <<device, in_restart, retries, up, inited, request, replies, crashes,
                     signals, ranUninitialised, wrongReply, crashed>>
      /\ UNCHANGED <<managers, enabled, ready, mgrIndex, configured, pc, node, coreLock>>
      BY DEF ManagerInit, RemoteExecute, remote, remoteHistory, config, section, progress
<1>2. /\ rpc \in [Callers -> {"none", "write", "read", "close", "open", "create", "returned"}]
      /\ func \in [Callers -> Funcs]
      /\ passed \in [Callers -> BOOLEAN]
      BY RpcTypes
<1>3. /\ rpc'[Boss] = "write" /\ func'[Boss] = "INIT"
      /\ \A u \in Callers : u # Boss => rpc'[u] = rpc[u]
      BY <1>1, <1>2
<1>4. ~InitPassed /\ ~InitPassed'
      BY <1>1, <1>3 DEF InitPassed
<1>5. \A s \in Sections : s \in Callers /\ s # Boss /\ rpc[s] = "none"
      BY <1>4 DEF BossInv, Placed, Sections
<1>6. \A u \in Callers : rpc[u] = "none"
      BY <1>1, <1>5 DEF Sections
<1>7. BossTyped'
      BY <1>1 DEF BossInv, BossTyped
<1>8. RemoteTypeOK'
      <2>1. /\ rpc' \in [Callers -> {"none", "write", "read", "close", "open", "create",
                                     "returned"}]
            /\ func' \in [Callers -> Funcs]
            /\ passed' \in [Callers -> BOOLEAN]
            BY <1>1, <1>2 DEF Funcs
      <2> QED
            BY <1>1, <2>1 DEF BossInv, RemoteTypeOK
<1>9. Serialised'
      BY <1>1, <1>3, <1>5 DEF BossInv, Serialised
<1>10. Placed'
      <2>1. \A m \in DOMAIN managers : ~(enabled[m] /\ managers[m].core = Remote)
            BY <1>1 DEF BossInv, Placed
      <2> QED
            BY <1>1, <1>3, <1>5, <2>1 DEF BossInv, Placed, NodesOf
<1>11. Restarting'
      BY <1>1, <1>3, <1>6 DEF BossInv, Restarting
<1>12. InitFirst'
      BY <1>1, <1>4 DEF BossInv, InitFirst
<1>13. OnlyOwn'
      BY <1>1, <1>3, <1>6 DEF BossInv, OnlyOwn
<1> QED
      BY <1>7, <1>8, <1>9, <1>10, <1>11, <1>12, <1>13 DEF BossInv

LEMMA ManagerInitDoneInv ==
    ASSUME BossInv, ManagerInitDone
    PROVE  BossInv'
<1> USE BossAssumption
<1>1. /\ ~ready /\ rpc[Boss] = "returned" /\ ready' = TRUE
      /\ enabled' = [m \in DOMAIN managers |-> managers[m].core # Remote \/ passed[Boss]]
      /\ UNCHANGED remoteVars
      /\ UNCHANGED <<rpc, func, passed>>
      /\ UNCHANGED <<managers, mgrIndex, configured, pc, node, coreLock>>
      BY DEF ManagerInitDone, remoteVars, call, section, progress
<1>2. passed \in [Callers -> BOOLEAN]
      BY RpcTypes
<1>3. BossTyped'
      <2>1. enabled' \in [DOMAIN managers -> BOOLEAN]
            BY <1>1, <1>2
      <2> QED
            BY <1>1, <2>1 DEF BossInv, BossTyped
<1>4. Serialised'
      BY <1>1 DEF BossInv, Serialised
<1>5. Placed'
      <2>1. \A m \in DOMAIN managers : enabled[m] => enabled'[m]
            BY <1>1 DEF BossInv, Placed
      <2>2. \A m \in DOMAIN managers : enabled'[m] /\ managers[m].core = Remote => passed[Boss]
            BY <1>1
      <2> QED
            BY <1>1, <2>1, <2>2 DEF BossInv, Placed, NodesOf, InitPassed
<1> QED
      BY <1>1, <1>3, <1>4, <1>5, BossKeepsRemote

\* The remote manager: it calls the core with coreLock held, on an enabled manager.
LEMMA RunRemoteInv ==
    ASSUME BossInv, NEW s \in Sections, RunRemote(s)
    PROVE  BossInv'
<1> USE BossAssumption
<1>1. /\ pc[s] = "run" /\ node[s] <= Len(Nodes[s]) /\ GroupManager(s).core = Remote
      /\ coreLock = NoOne /\ coreLock' = s
      /\ UNCHANGED <<device, in_restart, retries, up, inited, request, replies, crashes,
                     signals, ranUninitialised, wrongReply, crashed>>
      /\ UNCHANGED <<managers, enabled, ready, mgrIndex, configured>>
      BY DEF RunRemote, RemoteLock, remote, remoteHistory, config, section
<1>2. /\ s \in Callers /\ s # Boss
      /\ \A u \in Sections : u \in Callers /\ u # Boss /\ u # NoOne
      BY DEF Sections
<1>3. ready /\ rpc[Boss] = "returned"
      BY <1>1 DEF BossInv, Serialised
<1>4. \A u \in Sections : rpc[u] = "none"
      BY <1>1, <1>2 DEF BossInv, Serialised
<1>5. CASE /\ RemoteExecute(s, "EXEC")
           /\ pc' = [pc EXCEPT ![s] = "remote"]
           /\ UNCHANGED <<node, processed>>
      <2>1. /\ rpc' = [rpc EXCEPT ![s] = "write"]
            /\ func' = [func EXCEPT ![s] = "EXEC"]
            /\ passed' = [passed EXCEPT ![s] = FALSE]
            BY <1>5 DEF RemoteExecute
      <2>2. /\ rpc \in [Callers -> {"none", "write", "read", "close", "open", "create",
                                    "returned"}]
            /\ func \in [Callers -> Funcs]
            /\ passed \in [Callers -> BOOLEAN]
            BY RpcTypes
      <2>3. /\ rpc'[s] = "write" /\ rpc'[Boss] = rpc[Boss] /\ passed'[Boss] = passed[Boss]
            /\ func'[Boss] = func[Boss]
            /\ \A u \in Callers : u # s => rpc'[u] = rpc[u]
            BY <1>2, <2>1, <2>2
      <2>4. pc \in [Sections -> {"idle", "commit", "reconfigure", "run", "remote", "decommit"}]
            BY DEF BossInv, BossTyped
      <2>5. pc'[s] = "remote" /\ \A u \in Sections : u # s => pc'[u] = pc[u]
            BY <1>5, <2>4
      <2>6. \A u \in Callers : rpc[u] \in {"none", "returned"}
            BY <1>3, <1>4 DEF Sections
      <2>7. InitPassed
            <3>1. node[s] \in NodesOf(s)
                  BY <1>1 DEF BossInv, BossTyped, NodesOf
            <3>2. /\ mgrIndex[s][node[s]] \in DOMAIN managers
                  /\ enabled[mgrIndex[s][node[s]]]
                  BY <1>1, <3>1 DEF BossInv, Placed
            <3> QED
                  BY <1>1, <1>3, <3>2 DEF BossInv, Placed, GroupManager, InitPassed
      <2>8. InitPassed'
            BY <2>3, <2>7 DEF InitPassed
      <2>9. BossTyped'
            BY <1>1, <1>5, <2>4 DEF BossInv, BossTyped
      <2>10. RemoteTypeOK'
            <3>1. /\ rpc' \in [Callers -> {"none", "write", "read", "close", "open", "create",
                                           "returned"}]
                  /\ func' \in [Callers -> Funcs]
                  /\ passed' \in [Callers -> BOOLEAN]
                  BY <2>1, <2>2 DEF Funcs
            <3> QED
                  BY <1>1, <3>1 DEF BossInv, RemoteTypeOK
      <2>11. Serialised'
            BY <1>1, <1>2, <1>3, <1>4, <2>3, <2>5 DEF BossInv, Serialised
      <2>12. Placed'
            <3>1. \A u \in Sections : pc'[u] # "idle" => pc[u] # "idle"
                  BY <1>1, <2>5
            <3> QED
                  BY <1>1, <2>3, <2>8, <3>1 DEF BossInv, Placed, NodesOf
      <2>13. Restarting'
            BY <1>1, <2>3, <2>6 DEF BossInv, Restarting
      <2>14. InitFirst'
            BY <1>1, <2>6, <2>7, <2>8 DEF BossInv, InitFirst
      <2>15. OnlyOwn'
            BY <1>1, <2>3, <2>6 DEF BossInv, OnlyOwn
      <2> QED
            BY <2>9, <2>10, <2>11, <2>12, <2>13, <2>14, <2>15 DEF BossInv
<1>6. CASE GroupDone(s, 0) /\ UNCHANGED <<rpc, func, passed>>
      <2>1. /\ node' = [node EXCEPT ![s] = @ + Cardinality(Group(s))]
            /\ \E p \in {"run", "decommit"} : pc' = [pc EXCEPT ![s] = p]
            BY <1>6 DEF GroupDone
      <2>2. UNCHANGED <<remoteVars, config, section>>
            BY <1>6 DEF RunRemote, remoteVars, call
      <2> QED
            BY <1>1, <2>1, <2>2, GroupCount, SectionStep
<1> QED
      BY <1>5, <1>6 DEF RunRemote

LEMMA RemoteReturnsInv ==
    ASSUME BossInv, NEW s \in Sections, NEW k, RemoteReturns(s, k)
    PROVE  BossInv'
<1> USE BossAssumption
<1>1. /\ pc[s] = "remote" /\ rpc[s] = "returned"
      /\ rpc' = [rpc EXCEPT ![s] = "none"] /\ coreLock' = NoOne
      /\ node' = [node EXCEPT ![s] = @ + Cardinality(Group(s))]
      /\ \E p \in {"run", "decommit"} : pc' = [pc EXCEPT ![s] = p]
      /\ UNCHANGED <<device, in_restart, func, passed, retries, up, inited, request, replies,
                     crashes, signals, ranUninitialised, wrongReply, crashed>>
      /\ UNCHANGED <<managers, enabled, ready, mgrIndex, configured>>
      BY DEF RemoteReturns, GroupDone, remote, remoteHistory, config, section
<1>2. /\ s \in Callers /\ s # Boss
      /\ \A u \in Sections : u \in Callers /\ u # Boss /\ u # NoOne
      BY DEF Sections
<1>3. coreLock = s
      BY <1>1 DEF BossInv, Serialised
<1>4. /\ rpc \in [Callers -> {"none", "write", "read", "close", "open", "create", "returned"}]
      /\ pc \in [Sections -> {"idle", "commit", "reconfigure", "run", "remote", "decommit"}]
      BY DEF BossInv, BossTyped, RemoteTypeOK
<1>5. /\ rpc'[s] = "none" /\ \A u \in Callers : u # s => rpc'[u] = rpc[u]
      /\ \A u \in Sections : u # s => pc'[u] = pc[u]
      BY <1>1, <1>2, <1>4
<1>6. \A u \in Sections : rpc'[u] = "none"
      BY <1>2, <1>3, <1>5 DEF BossInv, Serialised
<1>7. rpc'[Boss] = rpc[Boss] /\ (InitPassed' <=> InitPassed)
      BY <1>1, <1>2, <1>5 DEF InitPassed
<1>8. BossTyped'
      <2>1. node' \in [Sections -> Nat \ {0}]
            BY <1>1, GroupCount
      <2>2. pc' \in [Sections -> {"idle", "commit", "reconfigure", "run", "remote", "decommit"}]
            BY <1>1, <1>4
      <2> QED
            BY <1>1, <2>1, <2>2 DEF BossInv, BossTyped
<1>9. RemoteTypeOK'
      <2>1. rpc' \in [Callers -> {"none", "write", "read", "close", "open", "create",
                                  "returned"}]
            BY <1>1, <1>4
      <2> QED
            BY <1>1, <2>1 DEF BossInv, RemoteTypeOK
<1>10. Serialised'
      <2>1. ready
            BY <1>1 DEF BossInv, Serialised
      <2> QED
            BY <1>1, <1>6, <1>7, <2>1 DEF BossInv, Serialised
<1>11. Placed'
      <2>1. \A u \in Sections : pc'[u] # "idle" => pc[u] # "idle"
            BY <1>1, <1>5
      <2> QED
            BY <1>1, <1>6, <1>7, <2>1 DEF BossInv, Placed, NodesOf
<1>12. Restarting'
      BY <1>1, <1>5 DEF BossInv, Restarting
<1>13. InitFirst'
      <2>1. \A u \in Callers : rpc[u] = "write" => rpc'[u] = "write"
            BY <1>1, <1>5
      <2> QED
            BY <1>1, <1>7, <2>1 DEF BossInv, InitFirst
<1>14. OnlyOwn'
      <2>1. \A u \in Callers : rpc'[u] = "read" <=> rpc[u] = "read"
            BY <1>1, <1>5
      <2>2. \A u \in Callers : Calling(u)' = Calling(u)
            BY <1>1 DEF Calling
      <2> QED
            BY <1>1, <2>1, <2>2 DEF BossInv, OnlyOwn
<1> QED
      BY <1>8, <1>9, <1>10, <1>11, <1>12, <1>13, <1>14 DEF BossInv

-----------------------------------------------------------------------------
LEMMA InitEstablishesBossInv == Init => BossInv
<1> USE BossAssumption, RemoteAssumption
<1> SUFFICES ASSUME Init
             PROVE  BossInv
      OBVIOUS
<1>1. /\ device = "open" /\ in_restart = FALSE /\ ready = FALSE
      /\ rpc = [t \in Callers |-> "none"] /\ request = << >> /\ replies = << >>
      /\ ranUninitialised = FALSE /\ wrongReply = FALSE
      /\ pc = [s \in Sections |-> "idle"]
      /\ enabled = [m \in DOMAIN managers |-> managers[m].core # Remote]
      /\ configured = [s \in Sections |-> [n \in NodesOf(s) |-> FALSE]]
      BY DEF Init, RemoteInit
<1>2. RemoteTypeOK
      <2>1. << >> \in Seq(Callers \X Funcs)
            BY EmptySeq
      <2>2. /\ rpc \in [Callers -> {"none", "write", "read", "close", "open", "create",
                                    "returned"}]
            /\ func \in [Callers -> Funcs] /\ passed \in [Callers -> BOOLEAN]
            BY DEF Init, RemoteInit, Funcs
      <2>3. retries \in 0..Retries /\ crashes \in 0..MaxCrashes /\ signals \in 0..MaxSignals
            BY DEF Init, RemoteInit
      <2>4. /\ in_restart \in BOOLEAN /\ up \in BOOLEAN /\ inited \in BOOLEAN
            /\ ranUninitialised \in BOOLEAN /\ wrongReply \in BOOLEAN /\ crashed \in BOOLEAN
            BY DEF Init, RemoteInit
      <2> QED
            BY <1>1, <2>1, <2>2, <2>3, <2>4 DEF RemoteTypeOK
<1>3. BossTyped
      <2>1. /\ managers \in Tables /\ node = [s \in Sections |-> 1] /\ coreLock = NoOne
            /\ DOMAIN mgrIndex = Sections
            BY DEF Init
      <2>2. enabled \in [DOMAIN managers -> BOOLEAN]
            BY <1>1
      <2>3. node \in [Sections -> Nat \ {0}]
            BY <2>1
      <2> QED
            BY <1>1, <2>1, <2>2, <2>3 DEF BossTyped
<1>4. \A s \in Sections : s \in Callers
      BY DEF Sections
<1>5. Serialised
      BY <1>1, <1>4 DEF Serialised
<1>6. Placed
      BY <1>1, <1>4 DEF Placed
<1>7. Restarting
      BY <1>1 DEF Restarting
<1>8. InitFirst
      BY <1>1 DEF InitFirst, InitPassed
<1>9. OnlyOwn
      BY <1>1 DEF OnlyOwn
<1> QED
      BY <1>2, <1>3, <1>5, <1>6, <1>7, <1>8, <1>9 DEF BossInv

LEMMA StepKeepsBossInv == BossInv /\ [Next]_vars => BossInv'
<1> SUFFICES ASSUME BossInv, [Next]_vars
             PROVE  BossInv'
      OBVIOUS
<1>1. ASSUME NEW t \in Callers, Rpc(CallStep(t))
      PROVE  BossInv'
      <2>1. UNCHANGED bossVars
            BY <1>1 DEF Rpc, bossVars
      <2>2. CASE ReadFails(t)
            <3>1. /\ rpc[t] = "read" /\ device = "stale" /\ Fails(t, TRUE)
                  /\ UNCHANGED <<request, device, func, up, inited, replies, crashes, signals,
                                 ranUninitialised, wrongReply, crashed>>
                  BY <2>2 DEF ReadFails, remote, remoteHistory
            <3>2. crashed' \in BOOLEAN
                  BY <3>1 DEF BossInv, RemoteTypeOK
            <3> QED
                  BY <2>1, <3>1, <3>2, FailsInv
      <2> QED
            BY <1>1, <2>1, <2>2, WriteInv, ReadInv, CloseInv, OpenInv, CreateInv
            DEF Rpc, CallStep
<1>2. ASSUME NEW t \in Callers, Rpc(~crashed /\ ReadInterrupted(t))
      PROVE  BossInv'
      BY <1>2, InterruptedInv DEF Rpc, bossVars
<1>3. CASE Rpc(Serve)
      BY <1>3, ServeInv DEF Rpc, bossVars
<1>4. CASE Rpc(Die) \/ Rpc(Reboot)
      BY <1>4, DieInv DEF Rpc, bossVars
<1>5. ASSUME NEW c \in Cores, NEW load \in Limits, SetMaxLoad(c, load)
      PROVE  BossInv'
      <2>1. UNCHANGED <<remoteVars, config, section, progress, coreLock>>
            BY <1>5 DEF SetMaxLoad
      <2> QED
            BY <2>1, UnchangedInv
<1>6. CASE UNCHANGED vars
      BY <1>6, UnchangedInv DEF vars
<1>7. ASSUME NEW s \in Sections, Process(s) \/ Reconfigure(s) \/ Steps(s)
      PROVE  BossInv'
      BY <1>7, ConfigureInv, LocalStepInv, RunRemoteInv, RemoteReturnsInv DEF Steps
<1> QED
      BY <1>1, <1>2, <1>3, <1>4, <1>5, <1>6, <1>7, ManagerInitInv, ManagerInitDoneInv
      DEF Next

\* The inductive invariant holds in every reachable state: callers of the core are
\* serialised by coreLock, nodes are placed on enabled managers only, and a core
\* that was connected again is sent its INIT before anything else.
THEOREM BossInvariant == Spec => []BossInv
BY InitEstablishesBossInv, StepKeepsBossInv, PTL DEF Spec

\* ExecOnInitialisedCore, for any number of deaths of the core: no kernel is
\* executed by an incarnation of it that has not executed INIT.
THEOREM ExecOnInitialisedCoreHolds == Spec => []ExecOnInitialisedCore
<1>1. BossInv => ExecOnInitialisedCore
      BY DEF BossInv, InitFirst, ExecOnInitialisedCore
<1> QED
      BY <1>1, BossInvariant, PTL

\* OwnReply, for any number of callers: a call takes the reply of another one only
\* after a read was interrupted by a signal.
THEOREM OwnReplyHolds == Spec => []OwnReply
<1>1. BossInv => OwnReply
      <2>1. BossInv => signals \in Nat
            BY RemoteAssumption DEF BossInv, RemoteTypeOK
      <2> QED
            BY <2>1 DEF BossInv, OnlyOwn, OwnReply
<1> QED
      BY <1>1, BossInvariant, PTL

-----------------------------------------------------------------------------
(* Sums.  MapThenSumSet is a recursive function on the subsets of its set; *)
(* what it computes is shown with a smallest subset for which it would not.*)

Pick(T) == CHOOSE x \in T : TRUE

\* g is the function that a sum of the values f over S is computed with.
IsSum(g, f, S) ==
    g = [T \in SUBSET S |-> IF T = {} THEN 0 ELSE f[Pick(T)] + g[T \ {Pick(T)}]]

SumSteps(g, f, S) ==
    g[{}] = 0 /\ \A T \in SUBSET S : T # {} => g[T] = f[Pick(T)] + g[T \ {Pick(T)}]

Total(f, S) == (CHOOSE g : IsSum(g, f, S))[S]

LEMMA PickIn == \A T : T # {} => Pick(T) \in T
BY DEF Pick

LEMMA SmallestSubset ==
    ASSUME NEW S, IsFiniteSet(S), NEW B \in SUBSET (SUBSET S), B # {}
    PROVE  \E T \in B : \A U \in B : U \subseteq T => U = T
<1>1. IsWellFoundedOn(StrictSubsetOrdering(S), FiniteSubsetsOf(S))
      BY FS_StrictSubsetOrderingWellFounded
<1>2. B \subseteq FiniteSubsetsOf(S)
      BY FS_Subset DEF FiniteSubsetsOf
<1>3. PICK T \in B : \A U \in B : ~(<<U, T>> \in StrictSubsetOrdering(S))
      BY <1>1, <1>2, WFMin
<1>4. \A U \in B : U \subseteq T /\ U # T => <<U, T>> \in StrictSubsetOrdering(S)
      BY DEF StrictSubsetOrdering
<1>5. \A U \in B : U \subseteq T => U = T
      BY <1>3, <1>4, Zenon
<1> QED
      BY <1>5, Zenon

LEMMA SumValues ==
    ASSUME NEW f, NEW S, NEW g, IsSum(g, f, S)
    PROVE  SumSteps(g, f, S)
<1> DEFINE G == [T \in SUBSET S |-> IF T = {} THEN 0 ELSE f[Pick(T)] + g[T \ {Pick(T)}]]
<1>1. g = G
      BY DEF IsSum
<1>2. G[{}] = 0
      OBVIOUS
<1>3. \A T \in SUBSET S : T # {} => G[T] = f[Pick(T)] + g[T \ {Pick(T)}]
      OBVIOUS
<1> HIDE DEF G
<1> QED
      BY <1>1, <1>2, <1>3, Zenon DEF SumSteps

\* The values of f on S decide.
LEMMA SumUnique ==
    ASSUME NEW f, NEW h, NEW R, NEW S, IsFiniteSet(S), S \subseteq R, \A x \in S : f[x] = h[x],
           NEW k, IsSum(k, h, R), NEW g, IsSum(g, f, S)
    PROVE  g[S] = k[S]
<1> DEFINE B == {T \in SUBSET S : g[T] # k[T]}
<1>1. g[{}] = 0 /\ \A T \in SUBSET S : T # {} => g[T] = f[Pick(T)] + g[T \ {Pick(T)}]
      <2>1. SumSteps(g, f, S)
            BY SumValues
      <2> QED
            BY <2>1, Zenon DEF SumSteps
<1>2. k[{}] = 0 /\ \A T \in SUBSET R : T # {} => k[T] = h[Pick(T)] + k[T \ {Pick(T)}]
      <2>1. SumSteps(k, h, R)
            BY SumValues
      <2> QED
            BY <2>1, Zenon DEF SumSteps
<1>3. B = {}
      <2> SUFFICES ASSUME B # {}
                   PROVE  FALSE
            OBVIOUS
      <2>1. PICK T \in B : \A U \in B : U \subseteq T => U = T
            <3>1. B \in SUBSET (SUBSET S)
                  OBVIOUS
            <3> HIDE DEF B
            <3> QED
                  BY <3>1, SmallestSubset
      <2>2. T \in SUBSET S /\ g[T] # k[T]
            OBVIOUS
      <2>3. T # {}
            BY <1>1, <1>2, <2>2
      <2>4. Pick(T) \in T /\ Pick(T) \in S
            BY <2>2, <2>3, PickIn
      <2>5. T \ {Pick(T)} \in SUBSET S /\ T \ {Pick(T)} \notin B
            BY <2>1, <2>2, <2>4
      <2>6. g[T \ {Pick(T)}] = k[T \ {Pick(T)}]
            BY <2>5
      <2>7. g[T] = f[Pick(T)] + g[T \ {Pick(T)}]
            BY <1>1, <2>2, <2>3, Zenon
      <2>8. k[T] = h[Pick(T)] + k[T \ {Pick(T)}]
            <3>1. T \in SUBSET R
                  BY <2>2
            <3> QED
                  BY <1>2, <2>3, <3>1, Zenon
      <2> QED
            BY <2>2, <2>4, <2>6, <2>7, <2>8
<1> QED
      BY <1>3

\* The function exists.
LEMMA SumExists ==
    ASSUME NEW f, NEW S, IsFiniteSet(S)
    PROVE  \E g : IsSum(g, f, S)
<1> DEFINE B == {T \in SUBSET S : ~ \E g : IsSum(g, f, T)}
<1> SUFFICES B = {}
      OBVIOUS
<1> SUFFICES ASSUME B # {}
             PROVE  FALSE
      OBVIOUS
<1>1. PICK T \in B : \A U \in B : U \subseteq T => U = T
      <2>1. B \in SUBSET (SUBSET S)
            OBVIOUS
      <2> HIDE DEF B
      <2> QED
            BY <2>1, SmallestSubset
<1>2. T \in SUBSET S /\ ~ \E g : IsSum(g, f, T)
      OBVIOUS
<1>3. ASSUME NEW U \in SUBSET T, U # T
      PROVE  IsFiniteSet(U) /\ \E g : IsSum(g, f, U)
      <2>1. U \in SUBSET S /\ U \notin B
            BY <1>1, <1>2, <1>3
      <2> QED
            BY <2>1, FS_Subset
<1> HIDE DEF B
<1> DEFINE h == [U \in SUBSET T |->
                   IF U = {} THEN 0 ELSE f[Pick(U)] + Total(f, U \ {Pick(U)})]
<1>4. ASSUME NEW U \in SUBSET T, U # {}
      PROVE  h[U \ {Pick(U)}] = Total(f, U \ {Pick(U)})
      <2> DEFINE W == U \ {Pick(U)}
      <2>1. Pick(U) \in U
            BY <1>4, PickIn
      <2>2. W \in SUBSET T /\ W # T
            BY <2>1
      <2> HIDE DEF W
      <2> DEFINE g == CHOOSE g : IsSum(g, f, W)
      <2>3. IsSum(g, f, W) /\ IsFiniteSet(W) /\ Total(f, W) = g[W]
            BY <1>3, <2>2 DEF Total
      <2> HIDE DEF g
      <2>4. CASE W = {}
            <3>1. g[W] = 0
                  BY <2>3, <2>4, SumValues, Zenon DEF SumSteps
            <3>2. h[W] = 0
                  BY <2>2, <2>4
            <3> QED
                  BY <2>3, <3>1, <3>2 DEF W
      <2>5. CASE W # {}
            <3> DEFINE V == W \ {Pick(W)}
            <3>1. g[W] = f[Pick(W)] + g[V]
                  <4>1. W \in SUBSET W
                        OBVIOUS
                  <4>2. SumSteps(g, f, W)
                        BY <2>3, SumValues
                  <4> QED
                        BY <2>5, <4>1, <4>2, Zenon DEF SumSteps
            <3>2. Pick(W) \in W /\ V \in SUBSET W /\ V # T /\ V \in SUBSET T
                  BY <2>2, <2>5, PickIn
            <3>3. h[W] = f[Pick(W)] + Total(f, V)
                  BY <2>2, <2>5
            <3> HIDE DEF V, h
            <3> DEFINE v == CHOOSE v : IsSum(v, f, V)
            <3>4. IsSum(v, f, V) /\ IsFiniteSet(V) /\ Total(f, V) = v[V]
                  BY <1>3, <3>2 DEF Total
            <3> HIDE DEF v
            <3>5. v[V] = g[V]
                  BY <2>3, <3>2, <3>4, SumUnique
            <3> QED
                  BY <2>3, <3>1, <3>3, <3>4, <3>5 DEF W
      <2>6. h[W] = Total(f, W)
            BY <2>4, <2>5 DEF W
      <2> QED
            BY <2>6 DEF W
<1>5. IsSum(h, f, T)
      <2>1. h = [U \in SUBSET T |-> IF U = {} THEN 0 ELSE f[Pick(U)] + h[U \ {Pick(U)}]]
            <3>1. \A U \in SUBSET T :
                     (IF U = {} THEN 0 ELSE f[Pick(U)] + Total(f, U \ {Pick(U)}))
                     = (IF U = {} THEN 0 ELSE f[Pick(U)] + h[U \ {Pick(U)}])
                  BY <1>4
            <3> QED
                  BY <3>1
      <2> HIDE DEF h
      <2> QED
            BY <2>1 DEF IsSum
<1> QED
      BY <1>2, <1>5

LEMMA TotalIs ==
    ASSUME NEW f, NEW S, IsFiniteSet(S)
    PROVE  \E g : IsSum(g, f, S) /\ Total(f, S) = g[S]
<1>1. IsSum((CHOOSE g : IsSum(g, f, S)), f, S)
      BY SumExists, Zenon
<1> QED
      BY <1>1, Zenon DEF Total

LEMMA TotalSame ==
    ASSUME NEW f, NEW h, NEW S, IsFiniteSet(S), \A x \in S : f[x] = h[x]
    PROVE  Total(f, S) = Total(h, S)
<1>1. PICK g : IsSum(g, f, S) /\ Total(f, S) = g[S]
      BY TotalIs
<1>2. PICK k : IsSum(k, h, S) /\ Total(h, S) = k[S]
      BY TotalIs
<1>3. g[S] = k[S]
      BY <1>1, <1>2, SumUnique
<1> QED
      BY <1>1, <1>2, <1>3

LEMMA TotalEmpty == \A f : Total(f, {}) = 0
<1> TAKE f
<1>1. PICK g : IsSum(g, f, {}) /\ Total(f, {}) = g[{}]
      BY TotalIs, FS_EmptySet
<1>2. SumSteps(g, f, {})
      BY <1>1, SumValues
<1> QED
      BY <1>1, <1>2, Zenon DEF SumSteps

LEMMA TotalStep ==
    ASSUME NEW f, NEW S, IsFiniteSet(S), S # {}
    PROVE  Total(f, S) = f[Pick(S)] + Total(f, S \ {Pick(S)})
<1> DEFINE W == S \ {Pick(S)}
<1>1. PICK g : IsSum(g, f, S) /\ Total(f, S) = g[S]
      BY TotalIs
<1>2. SumSteps(g, f, S)
      BY <1>1, SumValues
<1>3. S \in SUBSET S
      OBVIOUS
<1>4. g[S] = f[Pick(S)] + g[W]
      BY <1>2, <1>3, Zenon DEF SumSteps
<1>5. IsFiniteSet(W) /\ W \subseteq S
      BY FS_RemoveElement
<1> HIDE DEF W
<1>6. PICK k : IsSum(k, f, W) /\ Total(f, W) = k[W]
      BY <1>5, TotalIs
<1>7. k[W] = g[W]
      BY <1>1, <1>5, <1>6, SumUnique
<1>8. Total(f, S) = f[Pick(S)] + Total(f, W)
      BY <1>1, <1>4, <1>6, <1>7
<1> QED
      BY <1>8 DEF W

LEMMA TotalType ==
    ASSUME NEW f, NEW S, IsFiniteSet(S), \A x \in S : f[x] \in Nat
    PROVE  Total(f, S) \in Nat
<1> DEFINE B == {T \in SUBSET S : Total(f, T) \notin Nat}
<1> SUFFICES B = {}
      OBVIOUS
<1> SUFFICES ASSUME B # {}
             PROVE  FALSE
      OBVIOUS
<1>1. PICK T \in B : \A U \in B : U \subseteq T => U = T
      <2>1. B \in SUBSET (SUBSET S)
            OBVIOUS
      <2> HIDE DEF B
      <2> QED
            BY <2>1, SmallestSubset
<1>2. T \in SUBSET S /\ Total(f, T) \notin Nat
      OBVIOUS
<1>3. T # {}
      BY <1>2, TotalEmpty
<1>4. Pick(T) \in T /\ IsFiniteSet(T)
      BY <1>2, <1>3, PickIn, FS_Subset
<1>5. Total(f, T \ {Pick(T)}) \in Nat
      BY <1>1, <1>2, <1>4
<1>6. Total(f, T) = f[Pick(T)] + Total(f, T \ {Pick(T)})
      BY <1>3, <1>4, TotalStep
<1>7. f[Pick(T)] \in Nat
      BY <1>2, <1>4
<1> QED
      BY <1>2, <1>5, <1>6, <1>7

\* Any element may be taken out first.
LEMMA TotalRemove ==
    ASSUME NEW f, NEW S, IsFiniteSet(S), \A x \in S : f[x] \in Nat, NEW x \in S
    PROVE  Total(f, S) = f[x] + Total(f, S \ {x})
<1> DEFINE Holds(T) == \A y \in T : Total(f, T) = f[y] + Total(f, T \ {y})
           B == {T \in SUBSET S : ~Holds(T)}
<1> SUFFICES B = {}
      BY Zenon
<1> SUFFICES ASSUME B # {}
             PROVE  FALSE
      OBVIOUS
<1>1. PICK T \in B : \A U \in B : U \subseteq T => U = T
      <2>1. B \in SUBSET (SUBSET S)
            OBVIOUS
      <2> HIDE DEF B
      <2> QED
            BY <2>1, SmallestSubset
<1>2. T \in SUBSET S /\ ~Holds(T)
      OBVIOUS
<1>3. \A U \in SUBSET T : U # T => Holds(U)
      BY <1>1, <1>2
<1>4. PICK y \in T : Total(f, T) # f[y] + Total(f, T \ {y})
      BY <1>2
<1> HIDE DEF B
<1> DEFINE p == Pick(T)
<1>5. p \in T /\ IsFiniteSet(T)
      BY <1>2, <1>4, PickIn, FS_Subset
<1>6. Total(f, T) = f[p] + Total(f, T \ {p})
      BY <1>4, <1>5, TotalStep
<1> HIDE DEF p
<1>7. y # p
      BY <1>4, <1>6
<1>8. Total(f, T \ {p}) = f[y] + Total(f, (T \ {p}) \ {y})
      <2>1. T \ {p} \in SUBSET T /\ T \ {p} # T /\ y \in T \ {p}
            BY <1>5, <1>7
      <2> QED
            BY <1>3, <2>1
<1>9. Total(f, T \ {y}) = f[p] + Total(f, (T \ {y}) \ {p})
      <2>1. T \ {y} \in SUBSET T /\ T \ {y} # T /\ p \in T \ {y}
            BY <1>5, <1>7
      <2> QED
            BY <1>3, <2>1
<1>10. (T \ {y}) \ {p} = (T \ {p}) \ {y}
      OBVIOUS
<1>11. f[y] \in Nat /\ f[p] \in Nat /\ Total(f, (T \ {p}) \ {y}) \in Nat
      <2>1. IsFiniteSet((T \ {p}) \ {y})
            BY <1>5, FS_RemoveElement
      <2>2. \A z \in (T \ {p}) \ {y} : f[z] \in Nat
            BY <1>2
      <2> QED
            BY <1>2, <1>5, <2>1, <2>2, TotalType
<1>12. f[p] + (f[y] + Total(f, (T \ {p}) \ {y})) = f[y] + (f[p] + Total(f, (T \ {p}) \ {y}))
      BY <1>11
<1>13. Total(f, T \ {y}) = f[p] + Total(f, (T \ {p}) \ {y})
      BY <1>9, <1>10
<1>14. Total(f, T) = f[y] + Total(f, T \ {y})
      BY <1>6, <1>8, <1>12, <1>13, Zenon
<1> QED
      BY <1>4, <1>14

-----------------------------------------------------------------------------
\* The two sums of the boss: the loads l of the sections S on core c, and the
\* loads that the managers m, chosen by ch, give the nodes S of nd.
LoadSum(l, c, S) == MapThenSumSet(LAMBDA s : l[s][c], S)
NodeSum(m, ch, nd, S) == MapThenSumSet(LAMBDA n : m[ch[n]].loads[nd[n].kernel], S)

LEMMA LoadSumIs ==
    ASSUME NEW l, NEW c, NEW S, IsFiniteSet(S)
    PROVE  LoadSum(l, c, S) = Total([s \in S |-> l[s][c]], S)
<1> DEFINE f == [s \in S |-> l[s][c]]
           F(g) == [T \in SUBSET S |->
                      IF T = {} THEN 0 ELSE l[Pick(T)][c] + g[T \ {Pick(T)}]]
           h == CHOOSE g : g = F(g)
<1>1. LoadSum(l, c, S) = h[S]
      BY Zenon DEF LoadSum, MapThenSumSet, MapThenFoldSet, Pick
<1>2. ASSUME NEW g
      PROVE  g = F(g) <=> IsSum(g, f, S)
      <2>1. \A T \in SUBSET S : T # {} => f[Pick(T)] = l[Pick(T)][c]
            BY PickIn
      <2> HIDE DEF f
      <2>2. F(g) = [T \in SUBSET S |-> IF T = {} THEN 0 ELSE f[Pick(T)] + g[T \ {Pick(T)}]]
            BY <2>1
      <2> HIDE DEF F
      <2> QED
            BY <2>2 DEF IsSum
<1> HIDE DEF F, f
<1>3. PICK g : IsSum(g, f, S) /\ Total(f, S) = g[S]
      BY TotalIs
<1>4. h = F(h)
      <2>1. g = F(g)
            BY <1>2, <1>3
      <2> QED
            BY <2>1, Zenon
<1> HIDE DEF h
<1>5. IsSum(h, f, S)
      BY <1>2, <1>4
<1>6. h[S] = g[S]
      BY <1>3, <1>5, SumUnique
<1> QED
      BY <1>1, <1>3, <1>6 DEF f

LEMMA NodeSumIs ==
    ASSUME NEW m, NEW ch, NEW nd, NEW S, IsFiniteSet(S)
    PROVE  NodeSum(m, ch, nd, S) = Total([n \in S |-> m[ch[n]].loads[nd[n].kernel]], S)
<1> DEFINE f == [n \in S |-> m[ch[n]].loads[nd[n].kernel]]
           F(g) == [T \in SUBSET S |->
                      IF T = {} THEN 0
                      ELSE m[ch[Pick(T)]].loads[nd[Pick(T)].kernel] + g[T \ {Pick(T)}]]
           h == CHOOSE g : g = F(g)
<1>1. NodeSum(m, ch, nd, S) = h[S]
      BY Zenon DEF NodeSum, MapThenSumSet, MapThenFoldSet, Pick
<1>2. ASSUME NEW g
      PROVE  g = F(g) <=> IsSum(g, f, S)
      <2>1. \A T \in SUBSET S : T # {} => f[Pick(T)] = m[ch[Pick(T)]].loads[nd[Pick(T)].kernel]
            BY PickIn
      <2> HIDE DEF f
      <2>2. F(g) = [T \in SUBSET S |-> IF T = {} THEN 0 ELSE f[Pick(T)] + g[T \ {Pick(T)}]]
            BY <2>1
      <2> HIDE DEF F
      <2> QED
            BY <2>2 DEF IsSum
<1> HIDE DEF F, f
<1>3. PICK g : IsSum(g, f, S) /\ Total(f, S) = g[S]
      BY TotalIs
<1>4. h = F(h)
      <2>1. g = F(g)
            BY <1>2, <1>3
      <2> QED
            BY <2>1, Zenon
<1> HIDE DEF h
<1>5. IsSum(h, f, S)
      BY <1>2, <1>4
<1>6. h[S] = g[S]
      BY <1>3, <1>5, SumUnique
<1> QED
      BY <1>1, <1>3, <1>6 DEF f

LEMMA LoadSumSame ==
    ASSUME NEW l, NEW k, NEW c, NEW S, IsFiniteSet(S), \A s \in S : l[s][c] = k[s][c]
    PROVE  LoadSum(l, c, S) = LoadSum(k, c, S)
<1> DEFINE f == [s \in S |-> l[s][c]]
           g == [s \in S |-> k[s][c]]
<1>1. \A s \in S : f[s] = g[s]
      OBVIOUS
<1>2. LoadSum(l, c, S) = Total(f, S) /\ LoadSum(k, c, S) = Total(g, S)
      BY LoadSumIs
<1> HIDE DEF f, g
<1> QED
      BY <1>1, <1>2, TotalSame

LEMMA LoadSumNat ==
    ASSUME NEW l, NEW c, NEW S, IsFiniteSet(S), \A s \in S : l[s][c] \in Nat
    PROVE  LoadSum(l, c, S) \in Nat
<1> DEFINE f == [s \in S |-> l[s][c]]
<1>1. \A s \in S : f[s] \in Nat
      OBVIOUS
<1>2. LoadSum(l, c, S) = Total(f, S)
      BY LoadSumIs
<1> HIDE DEF f
<1> QED
      BY <1>1, <1>2, TotalType

\* A section takes its load off.
LEMMA LoadSumWithout ==
    ASSUME NEW l, NEW c, NEW S, IsFiniteSet(S), \A s \in S : l[s][c] \in Nat, NEW x \in S
    PROVE  LoadSum(l, c, S) = l[x][c] + LoadSum(l, c, S \ {x})
<1> DEFINE f == [s \in S |-> l[s][c]]
           W == S \ {x}
           g == [s \in W |-> l[s][c]]
<1>1. /\ \A s \in S : f[s] \in Nat
      /\ \A s \in W : f[s] = g[s]
      /\ f[x] = l[x][c]
      OBVIOUS
<1>2. IsFiniteSet(W)
      BY FS_RemoveElement
<1>3. LoadSum(l, c, S) = Total(f, S)
      BY LoadSumIs
<1>4. LoadSum(l, c, W) = Total(g, W)
      <2> HIDE DEF W
      <2> QED
            BY <1>2, LoadSumIs
<1> HIDE DEF f, g
<1>5. Total(f, S) = f[x] + Total(f, W)
      BY <1>1, TotalRemove
<1>6. Total(f, W) = Total(g, W)
      <2> HIDE DEF W
      <2> QED
            BY <1>1, <1>2, TotalSame
<1> QED
      BY <1>1, <1>3, <1>4, <1>5, <1>6

-----------------------------------------------------------------------------
(* The loads.                                                              *)

Held == {s \in Sections : Holding(s)}

\* Between the steps the shared table is the sum of what the sections that run have
\* booked.  The loads are the sections' own; one without nodes has none.
Loads ==
    /\ coreLoad \in [Sections -> [Cores -> Nat]]
    /\ \A s \in Sections : Nodes[s] = << >> => \A c \in Cores : coreLoad[s][c] = 0
    /\ currentLoad = [c \in Cores |-> LoadSum(coreLoad, c, Held)]

LEMMA SectionsFinite == IsFiniteSet(Sections) /\ \A S \in SUBSET Sections : IsFiniteSet(S)
<1>1. IsFiniteSet(Sections)
      BY BossAssumption, FS_Difference DEF Sections
<1> QED
      BY <1>1, FS_Subset

\* A step of a section that has no load booked, before and after it.
LEMMA LoadsKept ==
    ASSUME Loads, NEW s \in Sections,
           coreLoad' \in [Sections -> [Cores -> Nat]], currentLoad' = currentLoad,
           \A u \in Sections : u # s => coreLoad'[u] = coreLoad[u] /\ pc'[u] = pc[u],
           coreLoad'[s] = coreLoad[s] \/ ~Holding(s),
           Holding(s)' <=> Holding(s),
           Nodes[s] = << >> => \A c \in Cores : coreLoad'[s][c] = 0
    PROVE  Loads'
<1>1. Held' = Held
      BY DEF Held, Holding
<1>2. \A u \in Held : u \in Sections /\ coreLoad'[u] = coreLoad[u]
      BY DEF Held
<1>3. IsFiniteSet(Held)
      BY SectionsFinite DEF Held
<1>4. ASSUME NEW c \in Cores
      PROVE  LoadSum(coreLoad', c, Held') = LoadSum(coreLoad, c, Held)
      BY <1>1, <1>2, <1>3, LoadSumSame
<1>5. currentLoad' = [c \in Cores |-> LoadSum(coreLoad', c, Held')]
      BY <1>4 DEF Loads
<1>6. \A u \in Sections : Nodes[u] = << >> => \A c \in Cores : coreLoad'[u][c] = 0
      BY DEF Loads
<1> QED
      BY <1>5, <1>6 DEF Loads

\* DVP_ConfigureNodes adds to the section's own loads.
LEMMA ConfigureLoads ==
    ASSUME BossInv, Loads, NEW s \in Sections, NEW force \in BOOLEAN, ConfigureNodes(s, force)
    PROVE  /\ coreLoad' \in [Sections -> [Cores -> Nat]]
           /\ \A u \in Sections : u # s => coreLoad'[u] = coreLoad[u]
           /\ Nodes[s] = << >> => \A c \in Cores : coreLoad'[s][c] = 0
<1> DEFINE todo == {n \in NodesOf(s) : ~configured[s][n] \/ force}
           choice == [n \in todo |-> Choice(s, n)]
           unplaced == {n \in todo : choice[n] = 0}
           placed == {n \in todo : \A u \in unplaced : n < u}
           On(c) == {n \in placed : managers[choice[n]].core = c}
           added(c) == NodeSum(managers, choice, Nodes[s], On(c))
<1>1. coreLoad' = [coreLoad EXCEPT ![s] = [c \in Cores |-> @[c] + added(c)]]
      BY Zenon DEF ConfigureNodes, NodeSum, Kernel
<1>2. NodesOf(s) \subseteq Nat /\ IsFiniteSet(NodesOf(s))
      <2>1. Len(Nodes[s]) \in Nat /\ NodesOf(s) = 1..Len(Nodes[s])
            BY BossAssumption DEF NodesOf
      <2> HIDE BossAssumption
      <2> QED
            BY <2>1, FS_Interval
<1>3. \A n \in placed : managers[choice[n]].loads[Nodes[s][n].kernel] \in Nat
      <2> SUFFICES ASSUME NEW n \in placed
                   PROVE  managers[choice[n]].loads[Nodes[s][n].kernel] \in Nat
            OBVIOUS
      <2>1. n \in todo /\ n \in Nat /\ choice[n] = Choice(s, n)
            BY <1>2
      <2>2. choice[n] # 0
            BY <2>1
      <2>3. Choice(s, n) \in DOMAIN managers /\ Kernel(s, n) \in managers[Choice(s, n)].kernels
            BY <2>1, <2>2, ChoiceIsEnabled DEF BossInv
      <2>4. managers \in Tables
            BY DEF BossInv, BossTyped
      <2> QED
            BY <2>1, <2>3, <2>4, BossAssumption DEF Kernel
<1>4. \A c : On(c) \subseteq placed /\ On(c) \subseteq NodesOf(s)
      OBVIOUS
<1>5. coreLoad \in [Sections -> [Cores -> Nat]]
      BY DEF Loads
<1>6. ASSUME NEW c \in Cores
      PROVE  /\ added(c) \in Nat
             /\ Nodes[s] = << >> => added(c) = 0
      <2> DEFINE S == On(c)
                 f == [n \in S |-> managers[choice[n]].loads[Nodes[s][n].kernel]]
      <2>1. IsFiniteSet(S)
            BY <1>2, <1>4, FS_Subset
      <2>2. \A n \in S : f[n] \in Nat
            BY <1>3, <1>4
      <2>3. added(c) = Total(f, S)
            <3>1. ASSUME NEW ch, NEW N, IsFiniteSet(N)
                  PROVE  NodeSum(managers, ch, Nodes[s], N)
                         = Total([n \in N |-> managers[ch[n]].loads[Nodes[s][n].kernel]], N)
                  BY <3>1, NodeSumIs
            <3>2. added(c) = NodeSum(managers, choice, Nodes[s], S)
                  OBVIOUS
            <3> HIDE DEF S, choice, added
            <3> QED
                  BY <2>1, <3>1, <3>2
      <2>4. Nodes[s] = << >> => S = {}
            BY <1>4 DEF NodesOf
      <2> HIDE DEF f, S, On, added
      <2> QED
            BY <2>1, <2>2, <2>3, <2>4, TotalType, TotalEmpty
<1> HIDE DEF added, On
<1>7. /\ coreLoad'[s] = [c \in Cores |-> coreLoad[s][c] + added(c)]
      /\ \A u \in Sections : u # s => coreLoad'[u] = coreLoad[u]
      BY <1>1, <1>5
<1>8. coreLoad'[s] \in [Cores -> Nat]
      BY <1>5, <1>6, <1>7
<1>9. DOMAIN coreLoad' = Sections /\ coreLoad' = [u \in Sections |-> coreLoad'[u]]
      BY <1>1, <1>5
<1>10. coreLoad' \in [Sections -> [Cores -> Nat]]
      BY <1>5, <1>7, <1>8, <1>9
<1>11. Nodes[s] = << >> => \A c \in Cores : coreLoad'[s][c] = 0
      BY <1>6, <1>7 DEF Loads
<1> QED
      BY <1>7, <1>10, <1>11

\* A refused commit is unwound; one that is not adds the section's loads.
LEMMA CommitLoads ==
    ASSUME BossInv, Loads, NEW s \in Sections, CommitLoad(s)
    PROVE  Loads'
<1> USE DEF section
<1>1. /\ pc[s] = "commit" /\ currentLoad' = Committed(s) /\ coreLoad' = coreLoad
      /\ pc' = [pc EXCEPT ![s] =
                  IF Nodes[s] # << >> /\ Overloaded(s) = {} THEN "run" ELSE "reconfigure"]
      BY DEF CommitLoad
<1>2. pc \in [Sections -> {"idle", "commit", "reconfigure", "run", "remote", "decommit"}]
      BY DEF BossInv, BossTyped
<1>3. s \notin Held /\ Held \subseteq Sections /\ IsFiniteSet(Held)
      BY <1>1, SectionsFinite DEF Held, Holding
<1>4. coreLoad \in [Sections -> [Cores -> Nat]]
      BY DEF Loads
<1>5. \A c \in Cores : currentLoad[c] = LoadSum(coreLoad, c, Held) /\ currentLoad[c] \in Nat
      <2> SUFFICES ASSUME NEW c \in Cores
                   PROVE  LoadSum(coreLoad, c, Held) \in Nat
            BY DEF Loads
      <2>1. \A u \in Held : coreLoad[u][c] \in Nat
            BY <1>3, <1>4
      <2> QED
            BY <1>3, <2>1, LoadSumNat
<1>6. CASE Nodes[s] # << >> /\ Overloaded(s) = {}
      <2>1. Held' = Held \cup {s}
            BY <1>1, <1>2, <1>6 DEF Held, Holding
      <2>2. ASSUME NEW c \in Cores
            PROVE  currentLoad'[c] = LoadSum(coreLoad', c, Held')
            <3> DEFINE S == Held \cup {s}
            <3>1. IsFiniteSet(S) /\ s \in S /\ S \ {s} = Held
                  BY <1>3, FS_AddElement
            <3>2. \A u \in S : coreLoad[u][c] \in Nat
                  BY <1>3, <1>4
            <3> HIDE DEF S
            <3>3. LoadSum(coreLoad, c, S) = coreLoad[s][c] + LoadSum(coreLoad, c, S \ {s})
                  BY <3>1, <3>2, LoadSumWithout
            <3>4. LoadSum(coreLoad, c, S) = coreLoad[s][c] + currentLoad[c]
                  BY <1>5, <3>1, <3>3
            <3>5. currentLoad'[c] = currentLoad[c] + coreLoad[s][c]
                  BY <1>1, <1>6 DEF Committed
            <3>6. coreLoad[s][c] \in Nat
                  BY <1>4
            <3>7. currentLoad'[c] = LoadSum(coreLoad, c, S)
                  BY <1>5, <3>4, <3>5, <3>6
            <3>8. S = Held' /\ coreLoad' = coreLoad
                  BY <1>1, <2>1 DEF S
            <3> QED
                  BY <3>7, <3>8
      <2>3. currentLoad' = [c \in Cores |-> LoadSum(coreLoad', c, Held')]
            BY <1>1, <2>2 DEF Committed
      <2> QED
            BY <1>1, <2>3 DEF Loads
<1>7. CASE ~(Nodes[s] # << >> /\ Overloaded(s) = {})
      <2>1. ~Holding(s)' /\ ~Holding(s) /\ \A u \in Sections : u # s => pc'[u] = pc[u]
            BY <1>1, <1>2, <1>7 DEF Holding
      <2>2. ASSUME NEW c \in Cores
            PROVE  Committed(s)[c] = currentLoad[c]
            <3>1. coreLoad[s][c] \in Nat /\ currentLoad[c] \in Nat
                  BY <1>4, <1>5
            <3>2. CASE Overloaded(s) = {}
                  <4>1. coreLoad[s][c] = 0
                        BY <1>7, <3>2 DEF Loads
                  <4> QED
                        BY <3>1, <3>2, <4>1 DEF Committed
            <3>3. CASE Overloaded(s) # {} /\ c <= Min(Overloaded(s))
                  BY <3>1, <3>3 DEF Committed, Unwinds
            <3>4. CASE Overloaded(s) # {} /\ ~(c <= Min(Overloaded(s)))
                  BY <3>1, <3>4 DEF Committed, Unwinds
            <3> QED
                  BY <3>2, <3>3, <3>4
      <2>3. currentLoad' = currentLoad
            <3>1. Committed(s) = [c \in Cores |-> Committed(s)[c]]
                  BY DEF Committed
            <3>2. currentLoad = [c \in Cores |-> currentLoad[c]]
                  BY DEF Loads
            <3> HIDE DEF Committed
            <3> QED
                  BY <1>1, <2>2, <3>1, <3>2
      <2> QED
            BY <1>1, <1>4, <2>1, <2>3, LoadsKept DEF Loads
<1> QED
      BY <1>6, <1>7

LEMMA DecommitLoads ==
    ASSUME BossInv, Loads, NEW s \in Sections, DecommitLoad(s)
    PROVE  Loads'
<1>1. /\ pc[s] = "decommit" /\ coreLoad' = coreLoad /\ pc' = [pc EXCEPT ![s] = "idle"]
      /\ currentLoad' = [c \in Cores |-> currentLoad[c] - coreLoad[s][c]]
      BY DEF DecommitLoad, section
<1>2. pc \in [Sections -> {"idle", "commit", "reconfigure", "run", "remote", "decommit"}]
      BY DEF BossInv, BossTyped
<1>3. s \in Held /\ Held \subseteq Sections /\ IsFiniteSet(Held)
      BY <1>1, SectionsFinite DEF Held, Holding
<1>4. Held' = Held \ {s}
      BY <1>1, <1>2 DEF Held, Holding
<1>5. coreLoad \in [Sections -> [Cores -> Nat]]
      BY DEF Loads
<1>6. ASSUME NEW c \in Cores
      PROVE  currentLoad[c] - coreLoad[s][c] = LoadSum(coreLoad', c, Held')
      <2>1. \A u \in Held : coreLoad[u][c] \in Nat
            BY <1>3, <1>5
      <2>2. LoadSum(coreLoad, c, Held) = coreLoad[s][c] + LoadSum(coreLoad, c, Held \ {s})
            BY <1>3, <2>1, LoadSumWithout
      <2>3. LoadSum(coreLoad, c, Held \ {s}) \in Nat
            <3> DEFINE S == Held \ {s}
            <3>1. IsFiniteSet(S) /\ \A u \in S : coreLoad[u][c] \in Nat
                  BY <1>3, <2>1, FS_RemoveElement
            <3> HIDE DEF S
            <3>2. LoadSum(coreLoad, c, S) \in Nat
                  BY <3>1, LoadSumNat
            <3> QED
                  BY <3>2 DEF S
      <2>4. currentLoad[c] = LoadSum(coreLoad, c, Held)
            BY DEF Loads
      <2>5. currentLoad[c] - coreLoad[s][c] = LoadSum(coreLoad, c, Held \ {s})
            BY <1>3, <1>5, <2>2, <2>3, <2>4
      <2> QED
            BY <1>1, <1>4, <2>5
<1>7. currentLoad' = [c \in Cores |-> LoadSum(coreLoad', c, Held')]
      BY <1>1, <1>6
<1> QED
      BY <1>1, <1>7 DEF Loads

\* The nodes run, wherever: the section keeps what it has booked.
LEMMA RunLoads ==
    ASSUME BossInv, Loads, NEW s \in Sections,
           \/ RunOut(s) \/ RunRemote(s)
           \/ \E k \in 0..Len(Nodes[s]) : RunLocal(s, k) \/ RemoteReturns(s, k)
    PROVE  Loads'
<1>1. /\ pc[s] \in {"run", "remote"}
      /\ \E p \in {"run", "remote", "decommit"} : pc' = [pc EXCEPT ![s] = p]
      /\ UNCHANGED <<section, table>>
      BY DEF RunOut, RunRemote, RunLocal, RemoteReturns, GroupDone
<1>2. pc \in [Sections -> {"idle", "commit", "reconfigure", "run", "remote", "decommit"}]
      BY DEF BossInv, BossTyped
<1>3. Holding(s) /\ Holding(s)' /\ \A u \in Sections : u # s => pc'[u] = pc[u]
      BY <1>1, <1>2 DEF Holding
<1>4. coreLoad' = coreLoad /\ currentLoad' = currentLoad
      BY <1>1 DEF section, table
<1>5. /\ coreLoad' \in [Sections -> [Cores -> Nat]]
      /\ Nodes[s] = << >> => \A c \in Cores : coreLoad'[s][c] = 0
      BY <1>4 DEF Loads
<1> QED
      BY <1>3, <1>4, <1>5, LoadsKept

\* The steps of Next, by what they may touch of the boss.
LEMMA BossSteps ==
    ASSUME [Next]_vars
    PROVE  \/ \E s \in Sections : Process(s) \/ Reconfigure(s) \/ Steps(s)
           \/ ManagerInit \/ ManagerInitDone
           \/ \E c \in Cores, load \in Limits : SetMaxLoad(c, load)
           \/ UNCHANGED bossVars
BY DEF Next, Rpc, vars, bossVars

LEMMA StepKeepsLoads == BossInv /\ Loads /\ [Next]_vars => Loads'
<1> SUFFICES ASSUME BossInv, Loads, [Next]_vars
             PROVE  Loads'
      OBVIOUS
<1>1. ASSUME NEW s \in Sections, Process(s) \/ Reconfigure(s)
      PROVE  Loads'
      <2>1. PICK force \in BOOLEAN : ConfigureNodes(s, force)
            BY <1>1 DEF Process, Reconfigure
      <2>2. pc[s] \in {"idle", "reconfigure"} /\ UNCHANGED <<config, table>>
            BY <1>1 DEF Process, Reconfigure
      <2>3. \E p \in {"idle", "commit"} : pc' = [pc EXCEPT ![s] = p]
            <3>1. managers' = managers /\ enabled' = enabled
                  BY <2>2 DEF config
            <3> QED
                  BY <2>1, <3>1, ConfigureFacts
      <2>4. pc \in [Sections -> {"idle", "commit", "reconfigure", "run", "remote", "decommit"}]
            BY DEF BossInv, BossTyped
      <2>5. ~Holding(s) /\ ~Holding(s)' /\ \A u \in Sections : u # s => pc'[u] = pc[u]
            BY <2>2, <2>3, <2>4 DEF Holding
      <2>6. /\ coreLoad' \in [Sections -> [Cores -> Nat]]
            /\ \A u \in Sections : u # s => coreLoad'[u] = coreLoad[u]
            /\ Nodes[s] = << >> => \A c \in Cores : coreLoad'[s][c] = 0
            BY <2>1, ConfigureLoads
      <2>7. currentLoad' = currentLoad
            BY <2>2 DEF table
      <2> QED
            BY <2>5, <2>6, <2>7, LoadsKept
<1>2. ASSUME NEW s \in Sections, Steps(s)
      PROVE  Loads'
      BY <1>2, CommitLoads, DecommitLoads, RunLoads DEF Steps
<1>3. ASSUME UNCHANGED <<coreLoad, currentLoad, pc>>
      PROVE  Loads'
      BY <1>3 DEF Loads, Held, Holding
<1>4. CASE ManagerInit \/ ManagerInitDone
      BY <1>3, <1>4 DEF ManagerInit, ManagerInitDone, section, table, progress
<1>5. ASSUME NEW c \in Cores, NEW load \in Limits, SetMaxLoad(c, load)
      PROVE  Loads'
      BY <1>3, <1>5 DEF SetMaxLoad, section, progress
<1>6. CASE UNCHANGED bossVars
      BY <1>3, <1>6 DEF bossVars, section, table, progress
<1> QED
      BY <1>1, <1>2, <1>4, <1>5, <1>6, BossSteps

LEMMA InitEstablishesLoads == Init => Loads
<1> SUFFICES ASSUME Init
             PROVE  Loads
      OBVIOUS
<1>1. /\ coreLoad = [s \in Sections |-> [c \in Cores |-> 0]]
      /\ currentLoad = [c \in Cores |-> 0] /\ pc = [s \in Sections |-> "idle"]
      BY DEF Init
<1>2. Held = {}
      BY <1>1 DEF Held, Holding
<1>3. ASSUME NEW c \in Cores
      PROVE  LoadSum(coreLoad, c, Held) = 0
      <2> DEFINE f == [s \in {} |-> coreLoad[s][c]]
      <2>1. LoadSum(coreLoad, c, {}) = Total(f, {})
            BY LoadSumIs, FS_EmptySet
      <2> HIDE DEF f
      <2> QED
            BY <1>2, <2>1, TotalEmpty
<1> QED
      BY <1>1, <1>3 DEF Loads

\* The shared table and the sections' own loads, in every reachable state.
THEOREM LoadsInvariant == Spec => []Loads
BY InitEstablishesLoads, StepKeepsLoads, BossInvariant, PTL DEF Spec

\* LoadTableConserved, for any sections and any tables of managers: the loads that are
\* booked are those of the sections between their commit and their decommit.
THEOREM LoadTableConservedHolds == Spec => []LoadTableConserved
<1>1. Loads => LoadTableConserved
      <2> SUFFICES ASSUME Loads, NEW c \in Cores
                   PROVE  currentLoad[c] = LoadSum(coreLoad, c, Held)
            BY Zenon DEF LoadTableConserved, LoadSum, Held
      <2> QED
            BY DEF Loads
<1> QED
      BY <1>1, LoadsInvariant, PTL

-----------------------------------------------------------------------------
(* Types.                                                                  *)

\* The types of what the other invariants do not mention.  The nodes that were executed
\* are among those that the section has passed.
Shape ==
    /\ DOMAIN affinity = Sections /\ DOMAIN processed = Sections
    /\ \A s \in Sections :
          /\ affinity[s] \in [NodesOf(s) -> Cores \cup {AnyCore}]
          /\ mgrIndex[s] \in [NodesOf(s) -> DOMAIN managers]
          /\ configured[s] \in [NodesOf(s) -> BOOLEAN]
          /\ node[s] <= Len(Nodes[s]) + 1
          /\ processed[s] \in Nat /\ processed[s] < node[s]
    /\ maximumLoad \in [Cores -> Limits \cup {Unlimited}]
    /\ runs \in [Sections -> 0..MaxRuns] /\ sets \in 0..MaxSets
    /\ reconfigs \in [Sections -> 0..MaxReconfigs]
    /\ faulted \in [Sections -> BOOLEAN]

\* What a step of section s has to keep.
LEMMA ShapeKept ==
    ASSUME Shape, NEW s \in Sections, UNCHANGED <<managers, maximumLoad, sets>>,
           DOMAIN affinity' = Sections, DOMAIN processed' = Sections,
           \A u \in Sections : u # s =>
              /\ affinity'[u] = affinity[u] /\ mgrIndex'[u] = mgrIndex[u]
              /\ configured'[u] = configured[u] /\ node'[u] = node[u]
              /\ processed'[u] = processed[u],
           affinity'[s] \in [NodesOf(s) -> Cores \cup {AnyCore}],
           mgrIndex'[s] \in [NodesOf(s) -> DOMAIN managers],
           configured'[s] \in [NodesOf(s) -> BOOLEAN],
           node'[s] <= Len(Nodes[s]) + 1, processed'[s] \in Nat, processed'[s] < node'[s],
           runs' \in [Sections -> 0..MaxRuns], reconfigs' \in [Sections -> 0..MaxReconfigs],
           faulted' \in [Sections -> BOOLEAN]
    PROVE  Shape'
<1>1. ASSUME NEW u \in Sections
      PROVE  /\ affinity'[u] \in [NodesOf(u) -> Cores \cup {AnyCore}]
             /\ mgrIndex'[u] \in [NodesOf(u) -> DOMAIN managers]
             /\ configured'[u] \in [NodesOf(u) -> BOOLEAN]
             /\ node'[u] <= Len(Nodes[u]) + 1
             /\ processed'[u] \in Nat /\ processed'[u] < node'[u]
      <2>1. CASE u = s
            BY <2>1
      <2>2. CASE u # s
            BY <2>2 DEF Shape
      <2> QED
            BY <2>1, <2>2
<1> QED
      BY <1>1 DEF Shape, NodesOf

\* DVP_ConfigureNodes.
LEMMA ConfigureShape ==
    ASSUME BossInv, Shape, NEW s \in Sections, NEW force \in BOOLEAN, ConfigureNodes(s, force)
    PROVE  /\ DOMAIN affinity' = Sections
           /\ \A u \in Sections : u # s =>
                 /\ affinity'[u] = affinity[u] /\ mgrIndex'[u] = mgrIndex[u]
                 /\ configured'[u] = configured[u]
           /\ affinity'[s] \in [NodesOf(s) -> Cores \cup {AnyCore}]
           /\ mgrIndex'[s] \in [NodesOf(s) -> DOMAIN managers]
           /\ configured'[s] \in [NodesOf(s) -> BOOLEAN]
           /\ faulted' \in [Sections -> BOOLEAN]
<1> DEFINE todo == {n \in NodesOf(s) : ~configured[s][n] \/ force}
           choice == [n \in todo |-> Choice(s, n)]
           unplaced == {n \in todo : choice[n] = 0}
           placed == {n \in todo : \A u \in unplaced : n < u}
           visited == {n \in todo : \A u \in unplaced : n <= u}
           misplaced == {n \in visited : ByAffinity(affinity[s][n], Kernel(s, n)) = 0}
<1>1. /\ mgrIndex' = [mgrIndex EXCEPT ![s] =
              [n \in NodesOf(s) |-> IF n \in placed THEN choice[n] ELSE @[n]]]
      /\ configured' = [configured EXCEPT ![s] =
              [n \in NodesOf(s) |-> @[n] \/ n \in placed]]
      /\ affinity' = [affinity EXCEPT ![s] =
              [n \in NodesOf(s) |-> IF n \in misplaced THEN AnyCore ELSE @[n]]]
      /\ faulted' = [faulted EXCEPT ![s] = @ \/ unplaced # {}]
      BY DEF ConfigureNodes
<1>2. /\ DOMAIN mgrIndex = Sections /\ DOMAIN configured = Sections
      /\ DOMAIN affinity = Sections /\ faulted \in [Sections -> BOOLEAN]
      BY DEF BossInv, BossTyped, Shape
<1>3. /\ affinity[s] \in [NodesOf(s) -> Cores \cup {AnyCore}]
      /\ mgrIndex[s] \in [NodesOf(s) -> DOMAIN managers]
      /\ configured[s] \in [NodesOf(s) -> BOOLEAN]
      BY DEF Shape
<1>4. \A n \in placed : choice[n] \in DOMAIN managers
      <2> SUFFICES ASSUME NEW n \in placed
                   PROVE  choice[n] \in DOMAIN managers
            OBVIOUS
      <2>1. n \in todo /\ n \in Nat /\ choice[n] = Choice(s, n)
            BY BossAssumption DEF NodesOf
      <2>2. choice[n] # 0
            BY <2>1
      <2> QED
            BY <2>1, <2>2, ChoiceIsEnabled DEF BossInv
<1>5. \A n \in NodesOf(s) : configured[s][n] \in BOOLEAN
      BY <1>3
<1> HIDE DEF placed, choice, misplaced, unplaced
<1>6. DOMAIN affinity' = Sections /\ \A u \in Sections : u # s => affinity'[u] = affinity[u]
      BY <1>1, <1>2
<1>7. \A u \in Sections : u # s => mgrIndex'[u] = mgrIndex[u] /\ configured'[u] = configured[u]
      BY <1>1, <1>2
<1>8. affinity'[s] \in [NodesOf(s) -> Cores \cup {AnyCore}]
      <2>1. affinity'[s] = [n \in NodesOf(s) |-> IF n \in misplaced THEN AnyCore
                                                 ELSE affinity[s][n]]
            BY <1>1, <1>2
      <2> QED
            BY <1>3, <2>1
<1>9. mgrIndex'[s] \in [NodesOf(s) -> DOMAIN managers]
      <2>1. mgrIndex'[s] = [n \in NodesOf(s) |-> IF n \in placed THEN choice[n]
                                                 ELSE mgrIndex[s][n]]
            BY <1>1, <1>2
      <2> QED
            BY <1>3, <1>4, <2>1
<1>10. configured'[s] \in [NodesOf(s) -> BOOLEAN]
      <2>1. configured'[s] = [n \in NodesOf(s) |-> configured[s][n] \/ n \in placed]
            BY <1>1, <1>2
      <2> QED
            BY <2>1, Zenon
<1>11. faulted' \in [Sections -> BOOLEAN]
      <2>1. (faulted[s] \/ unplaced # {}) \in BOOLEAN
            BY Zenon
      <2> DEFINE b == faulted[s] \/ unplaced # {}
      <2>2. faulted' = [faulted EXCEPT ![s] = b]
            BY <1>1
      <2> HIDE DEF b
      <2>3. b \in BOOLEAN
            BY <2>1 DEF b
      <2> QED
            BY <1>2, <2>2, <2>3
<1> QED
      BY <1>6, <1>7, <1>8, <1>9, <1>10, <1>11

\* The group of nodes that starts at the current one ends in the section.
LEMMA GroupFits ==
    ASSUME BossInv, Shape, NEW s \in Sections
    PROVE  /\ Cardinality(Group(s)) \in Nat
           /\ node[s] + Cardinality(Group(s)) <= Len(Nodes[s]) + 1
<1> DEFINE I == node[s]..Len(Nodes[s])
<1>1. node[s] \in Nat /\ Len(Nodes[s]) \in Nat /\ node[s] <= Len(Nodes[s]) + 1
      BY BossAssumption DEF BossInv, BossTyped, Shape
<1>2. Group(s) \subseteq I
      <2>1. NodesOf(s) = 1..Len(Nodes[s])
            BY BossAssumption DEF NodesOf
      <2> QED
            BY <1>1, <2>1 DEF Group
<1>3. IsFiniteSet(I) /\ Cardinality(I) = IF node[s] > Len(Nodes[s]) THEN 0
                                         ELSE Len(Nodes[s]) - node[s] + 1
      <2>1. \A a, b \in Int : IsFiniteSet(a..b)
                              /\ Cardinality(a..b) = IF a > b THEN 0 ELSE b - a + 1
            BY FS_Interval
      <2>2. node[s] \in Int /\ Len(Nodes[s]) \in Int
            BY <1>1
      <2> QED
            BY <2>1, <2>2, Zenon
<1> HIDE DEF I
<1>4. IsFiniteSet(Group(s)) /\ Cardinality(Group(s)) <= Cardinality(I)
      BY <1>2, <1>3, FS_Subset
<1>5. Cardinality(Group(s)) \in Nat
      BY <1>4, FS_CardinalityType
<1> QED
      BY <1>1, <1>3, <1>4, <1>5

\* A manager has executed some nodes of the group, and the section goes past it.
LEMMA GroupDoneShape ==
    ASSUME BossInv, Shape, NEW s \in Sections, NEW k \in Nat, k <= Cardinality(Group(s)),
           processed' = [processed EXCEPT ![s] = @ + k],
           node' = [node EXCEPT ![s] = @ + Cardinality(Group(s))],
           UNCHANGED <<managers, section, maximumLoad, bounds>>
    PROVE  Shape'
<1>1. node \in [Sections -> Nat \ {0}]
      BY DEF BossInv, BossTyped
<1>2. processed[s] \in Nat /\ processed[s] < node[s] /\ DOMAIN processed = Sections
      BY DEF Shape
<1>3. /\ Cardinality(Group(s)) \in Nat
      /\ node[s] + Cardinality(Group(s)) <= Len(Nodes[s]) + 1
      BY GroupFits
<1>4. /\ node'[s] = node[s] + Cardinality(Group(s)) /\ processed'[s] = processed[s] + k
      /\ DOMAIN processed' = Sections
      /\ \A u \in Sections : u # s => node'[u] = node[u] /\ processed'[u] = processed[u]
      BY <1>1, <1>2
<1>5. node[s] \in Nat
      BY <1>1
<1> HIDE DEF Group
<1>6. /\ node'[s] <= Len(Nodes[s]) + 1 /\ processed'[s] \in Nat
      /\ processed'[s] < node'[s]
      BY <1>2, <1>3, <1>4, <1>5
<1>7. /\ UNCHANGED <<affinity, mgrIndex, configured, runs, sets, reconfigs, faulted>>
      BY DEF section, bounds
<1>8. /\ DOMAIN affinity' = Sections
      /\ affinity'[s] \in [NodesOf(s) -> Cores \cup {AnyCore}]
      /\ mgrIndex'[s] \in [NodesOf(s) -> DOMAIN managers]
      /\ configured'[s] \in [NodesOf(s) -> BOOLEAN]
      /\ runs' \in [Sections -> 0..MaxRuns] /\ reconfigs' \in [Sections -> 0..MaxReconfigs]
      /\ faulted' \in [Sections -> BOOLEAN]
      BY <1>7 DEF Shape
<1> QED
      BY <1>4, <1>6, <1>7, <1>8, ShapeKept

LEMMA ProcessShape ==
    ASSUME BossInv, Shape, NEW s \in Sections, Process(s) \/ Reconfigure(s)
    PROVE  Shape'
<1>1. PICK force \in BOOLEAN : ConfigureNodes(s, force)
      BY DEF Process, Reconfigure
<1>2. UNCHANGED <<managers, maximumLoad, sets>>
      BY DEF Process, Reconfigure, config, table
<1>3. /\ DOMAIN affinity' = Sections
      /\ \A u \in Sections : u # s =>
            /\ affinity'[u] = affinity[u] /\ mgrIndex'[u] = mgrIndex[u]
            /\ configured'[u] = configured[u]
      /\ affinity'[s] \in [NodesOf(s) -> Cores \cup {AnyCore}]
      /\ mgrIndex'[s] \in [NodesOf(s) -> DOMAIN managers]
      /\ configured'[s] \in [NodesOf(s) -> BOOLEAN]
      /\ faulted' \in [Sections -> BOOLEAN]
      BY <1>1, ConfigureShape
<1>4. /\ node \in [Sections -> Nat \ {0}] /\ DOMAIN processed = Sections
      /\ Len(Nodes[s]) \in Nat
      BY BossAssumption DEF BossInv, BossTyped, Shape
<1>5. /\ node'[s] <= Len(Nodes[s]) + 1 /\ processed'[s] \in Nat
      /\ processed'[s] < node'[s] /\ DOMAIN processed' = Sections
      /\ \A u \in Sections : u # s => node'[u] = node[u] /\ processed'[u] = processed[u]
      <2>1. CASE UNCHANGED <<node, processed>>
            BY <2>1 DEF Shape
      <2>2. CASE Start(s)
            BY <1>4, <2>2 DEF Start
      <2> QED
            BY <2>1, <2>2 DEF Process, Reconfigure
<1>6. runs' \in [Sections -> 0..MaxRuns] /\ reconfigs' \in [Sections -> 0..MaxReconfigs]
      <2>1. /\ MaxRuns \in Nat /\ MaxReconfigs \in Nat
            /\ runs \in [Sections -> 0..MaxRuns] /\ reconfigs \in [Sections -> 0..MaxReconfigs]
            BY BossAssumption DEF Shape
      <2>2. /\ \/ runs' = runs
               \/ runs[s] < MaxRuns /\ runs' = [runs EXCEPT ![s] = @ + 1]
            /\ \/ reconfigs' = reconfigs
               \/ /\ reconfigs[s] < MaxReconfigs
                  /\ reconfigs' = [reconfigs EXCEPT ![s] = @ + 1]
            BY DEF Process, Reconfigure
      <2>3. runs[s] \in 0..MaxRuns /\ reconfigs[s] \in 0..MaxReconfigs
            BY <2>1
      <2>4. runs[s] < MaxRuns => runs[s] + 1 \in 0..MaxRuns
            BY <2>1, <2>3
      <2>5. reconfigs[s] < MaxReconfigs => reconfigs[s] + 1 \in 0..MaxReconfigs
            BY <2>1, <2>3
      <2> QED
            BY <2>1, <2>2, <2>4, <2>5
<1> QED
      BY <1>2, <1>3, <1>5, <1>6, ShapeKept

LEMMA StepKeepsShape == BossInv /\ Shape /\ [Next]_vars => Shape'
<1> SUFFICES ASSUME BossInv, Shape, [Next]_vars
             PROVE  Shape'
      OBVIOUS
<1>1. ASSUME UNCHANGED <<managers, affinity, mgrIndex, configured, node, processed,
                         maximumLoad, bounds>>
      PROVE  Shape'
      BY <1>1 DEF Shape, NodesOf, bounds
<1>2. ASSUME NEW s \in Sections, CommitLoad(s) \/ DecommitLoad(s) \/ RunOut(s)
      PROVE  Shape'
      BY <1>1, <1>2 DEF CommitLoad, DecommitLoad, RunOut, config, section, table
<1>3. ASSUME NEW s \in Sections, NEW k \in 0..Len(Nodes[s]),
             RunLocal(s, k) \/ RemoteReturns(s, k)
      PROVE  Shape'
      <2>1. k <= Cardinality(Group(s)) /\ k \in Nat
            <3>1. Cardinality(Group(s)) \in Nat /\ Len(Nodes[s]) \in Nat
                  BY GroupFits, BossAssumption
            <3>2. k <= Cardinality(Group(s)) \/ k = 0
                  BY <1>3 DEF RunLocal, RemoteReturns
            <3> QED
                  BY <3>1, <3>2
      <2>2. /\ processed' = [processed EXCEPT ![s] = @ + k]
            /\ node' = [node EXCEPT ![s] = @ + Cardinality(Group(s))]
            /\ UNCHANGED <<managers, section, maximumLoad, bounds>>
            BY <1>3 DEF RunLocal, RemoteReturns, GroupDone, config, table
      <2> QED
            BY <2>1, <2>2, GroupDoneShape
<1>4. ASSUME NEW s \in Sections, RunRemote(s)
      PROVE  Shape'
      <2>1. UNCHANGED <<managers, section, maximumLoad, bounds>>
            BY <1>4 DEF RunRemote, config, table
      <2>2. UNCHANGED <<node, processed>> \/ GroupDone(s, 0)
            BY <1>4 DEF RunRemote
      <2>3. CASE UNCHANGED <<node, processed>>
            BY <1>1, <2>1, <2>3 DEF section
      <2>4. CASE GroupDone(s, 0)
            <3>1. /\ processed' = [processed EXCEPT ![s] = @ + 0]
                  /\ node' = [node EXCEPT ![s] = @ + Cardinality(Group(s))]
                  BY <2>4 DEF GroupDone
            <3>2. 0 <= Cardinality(Group(s)) /\ 0 \in Nat
                  <4>1. Cardinality(Group(s)) \in Nat
                        BY GroupFits
                  <4> HIDE DEF Group
                  <4> QED
                        BY <4>1
            <3> QED
                  BY <2>1, <3>1, <3>2, GroupDoneShape
      <2> QED
            BY <2>2, <2>3, <2>4
<1>5. CASE ManagerInit \/ ManagerInitDone
      BY <1>1, <1>5 DEF ManagerInit, ManagerInitDone, config, section, table, progress
<1>6. ASSUME NEW c \in Cores, NEW load \in Limits, SetMaxLoad(c, load)
      PROVE  Shape'
      <2>1. /\ UNCHANGED <<managers, affinity, mgrIndex, configured, node, processed, runs,
                           reconfigs, faulted>>
            /\ sets < MaxSets /\ sets' = sets + 1
            /\ maximumLoad' = [maximumLoad EXCEPT ![c] = load]
            BY <1>6 DEF SetMaxLoad, config, section, progress
      <2>2. sets' \in 0..MaxSets
            BY <2>1, BossAssumption DEF Shape
      <2>3. maximumLoad' \in [Cores -> Limits \cup {Unlimited}]
            BY <2>1 DEF Shape
      <2> QED
            BY <2>1, <2>2, <2>3 DEF Shape, NodesOf
<1>7. CASE UNCHANGED bossVars
      BY <1>1, <1>7 DEF bossVars, config, section, table, progress
<1>8. ASSUME NEW s \in Sections, Process(s) \/ Reconfigure(s) \/ Steps(s)
      PROVE  Shape'
      BY <1>2, <1>3, <1>4, <1>8, ProcessShape DEF Steps
<1> QED
      BY <1>5, <1>6, <1>7, <1>8, BossSteps

LEMMA InitEstablishesShape == Init => Shape
<1> SUFFICES ASSUME Init
             PROVE  Shape
      OBVIOUS
<1>1. /\ affinity = [s \in Sections |-> [n \in NodesOf(s) |-> Nodes[s][n].affinity]]
      /\ mgrIndex = [s \in Sections |-> [n \in NodesOf(s) |-> 1]]
      /\ configured = [s \in Sections |-> [n \in NodesOf(s) |-> FALSE]]
      /\ node = [s \in Sections |-> 1] /\ processed = [s \in Sections |-> 0]
      /\ managers \in Tables
      BY DEF Init
<1>2. 1 \in DOMAIN managers
      BY <1>1, BossAssumption
<1>3. ASSUME NEW s \in Sections
      PROVE  /\ affinity[s] \in [NodesOf(s) -> Cores \cup {AnyCore}]
             /\ mgrIndex[s] \in [NodesOf(s) -> DOMAIN managers]
             /\ configured[s] \in [NodesOf(s) -> BOOLEAN]
             /\ node[s] <= Len(Nodes[s]) + 1
             /\ processed[s] \in Nat /\ processed[s] < node[s]
      <2>1. /\ Len(Nodes[s]) \in Nat
            /\ \A n \in NodesOf(s) : Nodes[s][n].affinity \in Cores \cup {AnyCore}
            BY BossAssumption DEF NodesOf
      <2> QED
            BY <1>1, <1>2, <2>1
<1>4. /\ maximumLoad \in [Cores -> Limits \cup {Unlimited}]
      /\ runs \in [Sections -> 0..MaxRuns] /\ sets \in 0..MaxSets
      /\ reconfigs \in [Sections -> 0..MaxReconfigs]
      /\ faulted \in [Sections -> BOOLEAN]
      <2>1. MaxRuns \in Nat /\ MaxSets \in Nat /\ MaxReconfigs \in Nat
            BY BossAssumption
      <2> QED
            BY <2>1 DEF Init
<1> QED
      BY <1>1, <1>3, <1>4 DEF Shape

\* The types of the sections' own state, in every reachable state.
THEOREM ShapeInvariant == Spec => []Shape
BY InitEstablishesShape, StepKeepsShape, BossInvariant, PTL DEF Spec

\* TypeOK, for any sections and tables: a section never goes past its last node, it never
\* counts more nodes than it has, and no load of the shared table becomes negative.
THEOREM BossTypeOK == Spec => []TypeOK
<1>1. BossInv /\ Loads /\ Shape => TypeOK
      <2> SUFFICES ASSUME BossInv, Loads, Shape
                   PROVE  TypeOK
            OBVIOUS
      <2>1. ASSUME NEW s \in Sections
            PROVE  /\ node[s] \in 1..(Len(Nodes[s]) + 1)
                   /\ processed[s] \in 0..Len(Nodes[s])
            <3>1. /\ node[s] \in Nat \ {0} /\ Len(Nodes[s]) \in Nat
                  /\ node[s] <= Len(Nodes[s]) + 1
                  /\ processed[s] \in Nat /\ processed[s] < node[s]
                  BY BossAssumption DEF BossInv, BossTyped, Shape
            <3> QED
                  BY <3>1
      <2>2. currentLoad \in [Cores -> Nat]
            <3>1. ASSUME NEW c \in Cores
                  PROVE  LoadSum(coreLoad, c, Held) \in Nat
                  <4>1. IsFiniteSet(Held)
                        BY SectionsFinite DEF Held
                  <4>2. \A s \in Held : coreLoad[s][c] \in Nat
                        BY DEF Loads, Held
                  <4> QED
                        BY <4>1, <4>2, LoadSumNat
            <3> QED
                  BY <3>1 DEF Loads
      <2>3. \A s \in Sections : coreLoad[s] \in [Cores -> Nat]
            BY DEF Loads
      <2> QED
            BY <2>1, <2>2, <2>3 DEF TypeOK, BossInv, BossTyped, Shape
<1> QED
      BY <1>1, BossInvariant, LoadsInvariant, ShapeInvariant, PTL

-----------------------------------------------------------------------------
(* The search for a manager.                                               *)

LEMMA MaxIn ==
    ASSUME NEW N \in Nat, NEW S \in SUBSET (1..N), S # {}
    PROVE  Max(S) \in S /\ \A y \in S : Max(S) >= y
<1> DEFINE R == {N - x : x \in S}
<1>1. R \in SUBSET Nat /\ R # {}
      <2>1. \A x \in S : N - x \in Nat
            OBVIOUS
      <2> QED
            BY <2>1, Zenon
<1> HIDE DEF R
<1>2. Min(R) \in R /\ \A y \in R : Min(R) <= y
      BY <1>1, MinIn
<1>3. PICK x \in S : Min(R) = N - x
      BY <1>2 DEF R
<1>4. ASSUME NEW y \in S
      PROVE  x >= y
      <2>1. N - y \in R
            BY DEF R
      <2>2. N - x <= N - y
            BY <1>2, <1>3, <2>1
      <2>3. x \in Int /\ y \in Int
            OBVIOUS
      <2> QED
            BY <2>2, <2>3
<1> QED
      BY <1>4 DEF Max

\* From a priority above that of m the search goes to m, or to a manager in between.
LEMMA NextManagerFinds ==
    ASSUME BossTyped, NEW m \in DOMAIN managers, enabled[m], ~Hidden(m),
           NEW q \in Nat, q < managers[m].priority
    PROVE  LET n == NextManager(q)
           IN  /\ n \in DOMAIN managers /\ q < managers[n].priority
               /\ n = m \/ managers[n].priority < managers[m].priority
<1> DEFINE lower == {x \in DOMAIN managers : enabled[x] /\ managers[x].priority > q}
           prios == {managers[x].priority : x \in lower}
           best == Min(prios)
           top == {x \in lower : managers[x].priority = best}
<1>1. /\ Len(managers) \in Nat /\ DOMAIN managers = 1..Len(managers)
      /\ \A x \in DOMAIN managers : managers[x].priority \in Nat
      BY BossAssumption DEF BossTyped
<1>2. m \in lower
      BY <1>1
<1>3. prios \in SUBSET Nat /\ managers[m].priority \in prios
      BY <1>1, <1>2
<1>4. best \in prios /\ best <= managers[m].priority
      <2> HIDE DEF prios
      <2> QED
            BY <1>3, MinIn
<1>5. top # {} /\ top \in SUBSET (1..Len(managers))
      <2> HIDE DEF best
      <2> QED
            BY <1>1, <1>4
<1>6. NextManager(q) = Max(top)
      BY <1>2 DEF NextManager
<1> HIDE DEF best
<1>7. Max(top) \in top /\ \A y \in top : Max(top) >= y
      <2> HIDE DEF top
      <2> QED
            BY <1>1, <1>5, MaxIn
<1> DEFINE n == NextManager(q)
<1>8. /\ n \in DOMAIN managers /\ enabled[n] /\ q < managers[n].priority
      /\ managers[n].priority = best
      BY <1>1, <1>6, <1>7
<1>9. ASSUME managers[n].priority = managers[m].priority
      PROVE  n = m
      <2>1. m \in top
            BY <1>2, <1>8, <1>9
      <2>2. n >= m
            BY <1>6, <1>7, <2>1
      <2>3. ~(n > m)
            BY <1>8, <1>9 DEF Hidden
      <2> HIDE DEF n
      <2> QED
            BY <1>1, <1>8, <2>2, <2>3
<1> HIDE DEF n
<1>10. managers[n].priority \in Nat /\ managers[m].priority \in Nat
      BY <1>1, <1>8
<1>11. managers[n].priority <= managers[m].priority
      BY <1>4, <1>8
<1>12. n = m \/ managers[n].priority < managers[m].priority
      BY <1>9, <1>10, <1>11
<1>13. /\ n \in DOMAIN managers /\ q < managers[n].priority
       /\ n = m \/ managers[n].priority < managers[m].priority
      BY <1>8, <1>12
<1> QED
      BY <1>13 DEF n

\* One turn of the do-while of DVP_ConfigureNodes, after the turns g.
Turn(g, i) ==
    NextManager(IF i = 1 \/ g[i - 1] = 0 THEN 0 ELSE managers[g[i - 1]].priority)
Turns(g, n) == g = [i \in 1..n |-> Turn(g, i)]

LEMMA TurnSame ==
    ASSUME NEW g, NEW h, NEW i, i = 1 \/ g[i - 1] = h[i - 1]
    PROVE  Turn(g, i) = Turn(h, i)
BY DEF Turn

\* The turns can be taken one after the other, up to any number of them.
LEMMA TurnsExist ==
    ASSUME NEW N \in Nat
    PROVE  \E g : Turns(g, N)
<1> DEFINE B == {n \in Nat : ~\E g : Turns(g, n)}
<1> SUFFICES B = {}
      OBVIOUS
<1> SUFFICES ASSUME B # {}
             PROVE  FALSE
      OBVIOUS
<1> DEFINE n == Min(B)
<1>1. n \in B /\ \A y \in B : n <= y
      <2>1. B \in SUBSET Nat
            OBVIOUS
      <2> HIDE DEF B
      <2> QED
            BY <2>1, MinIn
<1> HIDE DEF n
<1>2. n \in Nat /\ ~\E g : Turns(g, n)
      BY <1>1
<1>3. n # 0
      <2> SUFFICES ASSUME n = 0
                   PROVE  FALSE
            OBVIOUS
      <2> DEFINE e == [i \in 1..0 |-> 0]
      <2>1. \A g : [i \in 1..0 |-> Turn(g, i)] = e
            OBVIOUS
      <2>2. Turns(e, 0)
            BY <2>1, Zenon DEF Turns
      <2> QED
            BY <1>2, <2>2
<1>4. n - 1 \in Nat /\ n - 1 \notin B
      BY <1>1, <1>2, <1>3
<1>5. PICK g : Turns(g, n - 1)
      BY <1>4
<1> HIDE DEF B
<1> DEFINE h == [i \in 1..n |-> Turn(g, i)]
<1>6. ASSUME NEW i \in 1..n
      PROVE  Turn(g, i) = Turn(h, i)
      <2>1. CASE i = 1
            BY <2>1, TurnSame
      <2>2. CASE i # 1
            <3>1. i - 1 \in 1..(n - 1) /\ i - 1 \in 1..n
                  BY <1>2, <2>2
            <3>2. g[i - 1] = Turn(g, i - 1)
                  BY <1>5, <3>1, Zenon DEF Turns
            <3>3. h[i - 1] = Turn(g, i - 1)
                  BY <3>1
            <3> HIDE DEF h
            <3> QED
                  BY <3>2, <3>3, TurnSame
      <2> QED
            BY <2>1, <2>2
<1>7. h = [i \in 1..n |-> Turn(h, i)]
      <2> DEFINE k == h
      <2>1. \A i \in 1..n : Turn(g, i) = Turn(k, i)
            BY <1>6
      <2>2. k = [i \in 1..n |-> Turn(g, i)]
            OBVIOUS
      <2> HIDE DEF k
      <2>3. k = [i \in 1..n |-> Turn(k, i)]
            BY <2>1, <2>2
      <2> QED
            BY <2>3 DEF k
<1> QED
      BY <1>2, <1>7, Zenon DEF Turns

LEMMA TriedTurns ==
    ASSUME BossTyped
    PROVE  \A i \in 1..Len(managers) : Tried[i] = Turn(Tried, i)
<1>1. Len(managers) \in Nat
      BY BossAssumption DEF BossTyped
<1>2. \E g : Turns(g, Len(managers))
      BY <1>1, TurnsExist
<1>3. Tried = CHOOSE g : Turns(g, Len(managers))
      BY Zenon DEF Tried, Turns, Turn
<1>4. Turns(Tried, Len(managers))
      BY <1>2, <1>3, Zenon
<1> HIDE DEF Tried
<1> QED
      BY <1>4, Zenon DEF Turns

\* A manager that the search can see and that supports the kernel is found, or another one
\* before it: the turns climb through the priorities below its own, and there are not as
\* many of those as turns.
LEMMA SearchFinds ==
    ASSUME BossTyped, NEW m \in DOMAIN managers, NEW k, Supports(m, k), ~Hidden(m)
    PROVE  ByPriority(k) # 0
<1> DEFINE good == {i \in 1..Len(managers) :
                      Tried[i] \in DOMAIN managers /\ Supports(Tried[i], k)}
           P(i) == managers[Tried[i]].priority
           Below(i) == Tried[i] \in DOMAIN managers /\ P(i) < managers[m].priority
           I == 1..Len(managers)
<1>1. /\ Len(managers) \in Nat /\ DOMAIN managers = I
      /\ \A x \in DOMAIN managers : managers[x].priority \in Nat
      BY BossAssumption DEF BossTyped
<1>2. good # {} => Tried[Min(good)] \in DOMAIN managers
      <2>1. good \in SUBSET Nat
            OBVIOUS
      <2>2. good # {} => Min(good) \in good
            <3> HIDE DEF good
            <3> QED
                  BY <2>1, MinIn
      <2> QED
            BY <2>2
<1>3. good # {} => ByPriority(k) # 0
      <2>1. good # {} => ByPriority(k) = Tried[Min(good)]
            BY Zenon DEF ByPriority
      <2> HIDE DEF good
      <2> QED
            BY <1>1, <1>2, <2>1
<1> SUFFICES ASSUME good = {}
             PROVE  FALSE
      BY <1>3
<1>4. \A i \in I : Tried[i] # m
      OBVIOUS
<1> HIDE DEF good
<1>5. enabled[m] /\ managers[m].priority \in Nat /\ managers[m].priority > 0
      BY <1>1 DEF Supports, Hidden
<1>6. \A i \in I : Tried[i] = Turn(Tried, i)
      BY TriedTurns
<1>7. ASSUME NEW i \in I, i = 1 \/ Below(i - 1)
      PROVE  Below(i) /\ (i # 1 => P(i - 1) < P(i))
      <2> DEFINE q == IF i = 1 THEN 0 ELSE P(i - 1)
      <2>1. q \in Nat /\ q < managers[m].priority
            BY <1>1, <1>5, <1>7
      <2>2. Tried[i] = NextManager(q)
            <3>1. i # 1 => Tried[i - 1] # 0
                  BY <1>1, <1>7
            <3>2. Turn(Tried, i) = NextManager(q)
                  BY <3>1 DEF Turn
            <3> QED
                  BY <1>6, <3>2
      <2> HIDE DEF q
      <2>3. /\ Tried[i] \in DOMAIN managers /\ q < P(i)
            /\ Tried[i] = m \/ P(i) < managers[m].priority
            BY <1>5, <2>1, <2>2, NextManagerFinds
      <2> QED
            BY <1>4, <2>3 DEF q
<1> HIDE DEF Below
<1>8. \A i \in I : Below(i)
      <2> DEFINE B == {i \in I : ~Below(i)}
      <2> SUFFICES ASSUME B # {}
                   PROVE  FALSE
            OBVIOUS
      <2>1. B \in SUBSET Nat
            OBVIOUS
      <2> DEFINE i == Min(B)
      <2>2. i \in B /\ \A y \in B : i <= y
            <3> HIDE DEF B
            <3> QED
                  BY <2>1, MinIn
      <2> HIDE DEF i
      <2>3. i \in I /\ ~Below(i)
            BY <2>2
      <2>4. i # 1 => i - 1 \in I /\ i - 1 \notin B
            BY <2>2, <2>3
      <2>5. i = 1 \/ Below(i - 1)
            BY <2>4
      <2> QED
            BY <1>7, <2>3, <2>5
<1>9. \A i \in I : Tried[i] \in DOMAIN managers /\ P(i) \in Nat
      BY <1>1, <1>8 DEF Below
<1>10. \A i \in I : i # 1 => i - 1 \in I /\ P(i - 1) < P(i)
      <2>1. \A i \in I : i # 1 => i - 1 \in I
            OBVIOUS
      <2> QED
            BY <1>7, <1>8, <2>1
<1> HIDE DEF P
<1>11. \A j \in I : \A i \in I : i < j => P(i) < P(j)
      <2> DEFINE B == {j \in I : \E i \in I : i < j /\ ~(P(i) < P(j))}
      <2> SUFFICES ASSUME B # {}
                   PROVE  FALSE
            OBVIOUS
      <2>1. B \in SUBSET Nat
            OBVIOUS
      <2> DEFINE j == Min(B)
      <2>2. j \in B /\ \A y \in B : j <= y
            <3> HIDE DEF B
            <3> QED
                  BY <2>1, MinIn
      <2> HIDE DEF j
      <2>3. PICK i \in I : i < j /\ ~(P(i) < P(j))
            BY <2>2
      <2>4. j \in I /\ j # 1 /\ j - 1 \in I /\ i <= j - 1 /\ j - 1 \notin B
            <3>1. j \in I
                  BY <2>2
            <3>2. j \in Int /\ ~(j <= j - 1)
                  BY <1>1, <3>1
            <3>3. j # 1 /\ j - 1 \in I /\ i <= j - 1
                  BY <1>1, <2>3, <3>1
            <3> HIDE DEF B
            <3> QED
                  BY <2>2, <3>1, <3>2, <3>3
      <2>5. i = j - 1 \/ P(i) < P(j - 1)
            BY <1>1, <2>3, <2>4
      <2>6. P(j - 1) < P(j)
            BY <1>10, <2>4
      <2>7. P(i) \in Nat /\ P(j) \in Nat /\ P(j - 1) \in Nat
            BY <1>9, <2>4
      <2> QED
            BY <2>3, <2>5, <2>6, <2>7
<1> DEFINE T == I \ {m}
           f == [i \in I |-> Tried[i]]
<1>12. f \in [I -> T]
      BY <1>1, <1>4, <1>9
<1>13. IsFiniteSet(I) /\ Cardinality(I) \in Nat
      BY <1>1, FS_Interval, FS_CardinalityType
<1>14. IsFiniteSet(T) /\ Cardinality(T) < Cardinality(I)
      <2>1. m \in I
            BY <1>1
      <2> HIDE DEF I
      <2>2. IsFiniteSet(T) /\ Cardinality(T) = Cardinality(I) - 1
            BY <1>13, <2>1, FS_RemoveElement
      <2> QED
            BY <1>13, <2>2
<1>15. \E x, y \in I : x # y /\ f[x] = f[y]
      <2> HIDE DEF f, T, I
      <2> QED
            BY <1>12, <1>13, <1>14, FS_PigeonHole
<1>16. PICK x, y \in I : x # y /\ Tried[x] = Tried[y]
      BY <1>15
<1>17. P(x) = P(y) /\ P(x) \in Nat
      BY <1>9, <1>16 DEF P
<1>18. x < y \/ y < x
      BY <1>1, <1>16
<1> QED
      BY <1>11, <1>17, <1>18

\* Why a section was refused, which does not change once the boss is up.
Unsupported(s) ==
    \E n \in NodesOf(s) : \A m \in DOMAIN managers : Supports(m, Kernel(s, n)) => Hidden(m)
Faults == \A s \in Sections : faulted[s] => ready /\ Unsupported(s)

LEMMA ConfigureFaults ==
    ASSUME BossInv, Shape, Faults, NEW s \in Sections, NEW force \in BOOLEAN,
           ConfigureNodes(s, force), ready, UNCHANGED config
    PROVE  Faults'
<1> DEFINE todo == {n \in NodesOf(s) : ~configured[s][n] \/ force}
           choice == [n \in todo |-> Choice(s, n)]
           unplaced == {n \in todo : choice[n] = 0}
<1>1. faulted' = [faulted EXCEPT ![s] = @ \/ unplaced # {}]
      BY DEF ConfigureNodes
<1>2. ASSUME NEW n \in unplaced
      PROVE  Unsupported(s)
      <2>1. n \in NodesOf(s) /\ Choice(s, n) = 0
            OBVIOUS
      <2>2. ByPriority(Kernel(s, n)) = 0
            BY <2>1 DEF Choice
      <2>3. \A m \in DOMAIN managers : Supports(m, Kernel(s, n)) => Hidden(m)
            BY <2>2, SearchFinds DEF BossInv
      <2> QED
            BY <2>1, <2>3 DEF Unsupported
<1>3. unplaced # {} => Unsupported(s)
      BY <1>2
<1> HIDE DEF unplaced
<1>4. faulted \in [Sections -> BOOLEAN]
      BY DEF Shape
<1>5. ASSUME NEW u \in Sections, faulted'[u]
      PROVE  Unsupported(u)
      <2>1. CASE u # s
            <3>1. faulted'[u] = faulted[u]
                  BY <1>1, <1>4, <2>1
            <3> QED
                  BY <1>5, <3>1 DEF Faults
      <2>2. CASE u = s
            <3>1. faulted[s] \/ unplaced # {}
                  BY <1>1, <1>4, <1>5, <2>2
            <3> QED
                  BY <1>3, <2>2, <3>1 DEF Faults
      <2> QED
            BY <2>1, <2>2
<1>6. managers' = managers /\ enabled' = enabled /\ ready'
      BY DEF config
<1>7. \A u \in Sections : Unsupported(u)' <=> Unsupported(u)
      BY <1>6 DEF Unsupported, Supports, Hidden, NodesOf, Kernel
<1> QED
      BY <1>5, <1>6, <1>7 DEF Faults

LEMMA StepKeepsFaults == BossInv /\ Shape /\ Faults /\ [Next]_vars => Faults'
<1> SUFFICES ASSUME BossInv, Shape, Faults, [Next]_vars
             PROVE  Faults'
      OBVIOUS
<1>1. ASSUME NEW s \in Sections, Process(s) \/ Reconfigure(s)
      PROVE  Faults'
      <2>1. PICK force \in BOOLEAN : ConfigureNodes(s, force)
            BY <1>1 DEF Process, Reconfigure
      <2>2. ready /\ UNCHANGED config
            BY <1>1 DEF Process, Reconfigure, BossInv, Serialised
      <2> QED
            BY <2>1, <2>2, ConfigureFaults
<1>2. ASSUME UNCHANGED <<managers, enabled, faulted>>, ready => ready'
      PROVE  Faults'
      <2>1. \A u \in Sections : Unsupported(u)' <=> Unsupported(u)
            BY <1>2 DEF Unsupported, Supports, Hidden, NodesOf, Kernel
      <2> QED
            BY <1>2, <2>1 DEF Faults
<1>3. ASSUME NEW s \in Sections, Steps(s)
      PROVE  Faults'
      <2>1. UNCHANGED <<config, bounds>>
            BY <1>3 DEF Steps, CommitLoad, RunOut, RunRemote, DecommitLoad, RunLocal,
                        RemoteReturns
      <2> QED
            BY <1>2, <2>1 DEF config, bounds
<1>4. CASE ManagerInit
      BY <1>2, <1>4 DEF ManagerInit, config, bounds
<1>5. CASE ManagerInitDone
      <2>1. ~ready /\ faulted' = faulted
            BY <1>5 DEF ManagerInitDone, bounds
      <2> QED
            BY <2>1 DEF Faults
<1>6. ASSUME NEW c \in Cores, NEW load \in Limits, SetMaxLoad(c, load)
      PROVE  Faults'
      BY <1>2, <1>6 DEF SetMaxLoad, config
<1>7. CASE UNCHANGED bossVars
      BY <1>2, <1>7 DEF bossVars, config, bounds
<1> QED
      BY <1>1, <1>3, <1>4, <1>5, <1>6, <1>7, BossSteps

\* FaultMeansUnsupported, for any tables of managers and any sections: the search does not
\* give up as long as there is a manager that it can see.
THEOREM FaultMeansUnsupportedHolds == Spec => []FaultMeansUnsupported
<1>1. Init => Faults
      BY DEF Init, Faults
<1>2. Spec => []Faults
      BY <1>1, StepKeepsFaults, BossInvariant, ShapeInvariant, PTL DEF Spec
<1>3. Faults => FaultMeansUnsupported
      BY DEF Faults, FaultMeansUnsupported, Unsupported
<1> QED
      BY <1>2, <1>3, PTL
=============================================================================
