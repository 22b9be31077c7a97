------------------------------- MODULE LockProofs -------------------------------
(***************************************************************************)
(* The two chains of promises, of Trivy runs and of the redirects of a     *)
(* session, implement the abstract Lock for any number of callers.  What   *)
(* they have in common is proved once, of a chain of any clients.          *)
(***************************************************************************)
EXTENDS TrivyQueue, OidcSession, FiniteSetTheorems, WellFoundedInduction, TLAPS

(***************************************************************************)
(* A chain: the clients in the queue wait, each once; each is behind the   *)
(* one before it, the first is behind the client inside, if there is one,  *)
(* and the next to come will be behind the last.                           *)
(***************************************************************************)
Chain(C, none, queue, in, behindOf, last) ==
  /\ queue \in Seq(C) /\ in \subseteq C
  /\ behindOf \in [C -> C \cup {none}] /\ last \in C \cup {none}
  /\ \A i \in 1..Len(queue) : queue[i] \notin in
  /\ \A i, j \in 1..Len(queue) : queue[i] = queue[j] => i = j
  /\ \A i \in 2..Len(queue) : behindOf[queue[i]] = queue[i - 1]
  /\ queue # <<>> => /\ \A c \in C : c \in in <=> behindOf[queue[1]] = c
                     /\ last = queue[Len(queue)]
  /\ queue = <<>> => \A c \in C : c \in in <=> last = c

\* One that asks is behind the last, and becomes the last.
LEMMA ChainAsk ==
  ASSUME NEW C, NEW none, none \notin C, NEW q, NEW in, NEW b, NEW last,
         Chain(C, none, q, in, b, last),
         NEW c \in C, c \notin in, \A i \in 1..Len(q) : q[i] # c
  PROVE  Chain(C, none, Append(q, c), in, [b EXCEPT ![c] = last], c)
<1> DEFINE q2 == Append(q, c)
           b2 == [b EXCEPT ![c] = last]
<1>1. /\ q \in Seq(C) /\ b \in [C -> C \cup {none}] /\ last \in C \cup {none}
      /\ \A i \in 1..Len(q) : q[i] \in C /\ q[i] \notin in /\ q[i] # c
  BY DEF Chain
<1>2. /\ q2 \in Seq(C) /\ Len(q2) = Len(q) + 1 /\ q2[Len(q) + 1] = c /\ Len(q) \in Nat
      /\ \A i \in 1..Len(q) : q2[i] = q[i]
  BY <1>1
<1>3. b2 \in [C -> C \cup {none}] /\ \A u \in C : b2[u] = IF u = c THEN last ELSE b[u]
  BY <1>1
<1> HIDE DEF q2, b2
<1>4. /\ \A i \in 1..Len(q2) : q2[i] \notin in
      /\ \A i, j \in 1..Len(q2) : q2[i] = q2[j] => i = j
  <2>1. ASSUME NEW i \in 1..Len(q2) PROVE i \in 1..Len(q) \/ i = Len(q) + 1
    BY <1>2
  <2>2. \A i \in 1..Len(q2) : q2[i] \notin in
    BY <1>1, <1>2, <2>1
  <2>3. \A i, j \in 1..Len(q) : q[i] = q[j] => i = j
    BY DEF Chain
  <2>4. \A i, j \in 1..Len(q2) : q2[i] = q2[j] => i = j
    BY <1>1, <1>2, <2>1, <2>3
  <2> QED BY <2>2, <2>4
<1>5. q2 # <<>> /\ c = q2[Len(q2)]
  BY <1>2
<1>6. CASE q = <<>>
  <2>1. Len(q2) = 1 /\ q2[1] = c
    BY <1>2, <1>6
  <2>2. \A u \in C : u \in in <=> b2[q2[1]] = u
    BY <1>3, <1>6, <2>1 DEF Chain
  <2>3. \A i \in 2..Len(q2) : b2[q2[i]] = q2[i - 1]
    BY <2>1
  <2> QED BY <1>2, <1>3, <1>4, <1>5, <2>2, <2>3 DEF Chain, q2, b2
<1>7. CASE q # <<>>
  <2>1. Len(q) > 0 /\ last = q[Len(q)]
    BY <1>1, <1>7 DEF Chain
  <2>2. ASSUME NEW i \in 2..Len(q2) PROVE b2[q2[i]] = q2[i - 1]
    <3>1. CASE i = Len(q) + 1
      BY <1>2, <1>3, <2>1, <3>1, SMTT(30)
    <3>2. CASE i # Len(q) + 1
      <4>1. i \in 2..Len(q) /\ i \in 1..Len(q) /\ i - 1 \in 1..Len(q)
        BY <1>2, <3>2
      <4>2. b[q[i]] = q[i - 1]
        BY <4>1 DEF Chain
      <4> QED BY <1>1, <1>2, <1>3, <4>1, <4>2
    <3> QED BY <3>1, <3>2
  <2>3. \A u \in C : u \in in <=> b2[q2[1]] = u
    <3>1. 1 \in 1..Len(q)
      BY <1>2, <2>1
    <3> QED BY <1>1, <1>2, <1>3, <1>7, <3>1 DEF Chain
  <2> QED BY <1>2, <1>3, <1>4, <1>5, <2>2, <2>3 DEF Chain, q2, b2
<1> QED BY <1>6, <1>7

\* One of the queue that is behind nobody is the first, and nobody is inside.
LEMMA ChainEnter ==
  ASSUME NEW C, NEW none, none \notin C, NEW q, NEW in, NEW b, NEW last,
         Chain(C, none, q, in, b, last),
         NEW k \in 1..Len(q), b[q[k]] = none
  PROVE  /\ q # <<>> /\ q[k] = Head(q) /\ k = 1 /\ in = {}
         /\ Chain(C, none, Tail(q), {q[k]}, b, last)
<1>1. /\ q \in Seq(C) /\ b \in [C -> C \cup {none}] /\ last \in C \cup {none} /\ in \subseteq C
      /\ \A i \in 1..Len(q) : q[i] \in C
  BY DEF Chain
<1>2. k = 1
  <2> SUFFICES ASSUME k # 1 PROVE FALSE
    OBVIOUS
  <2>1. k \in 2..Len(q) /\ k - 1 \in 1..Len(q)
    BY <1>1
  <2>2. b[q[k]] = q[k - 1]
    BY <2>1 DEF Chain
  <2> QED BY <1>1, <2>1, <2>2
<1>3. q # <<>> /\ q[k] = Head(q)
  BY <1>1, <1>2
<1>4. in = {}
  BY <1>1, <1>2, <1>3 DEF Chain
<1> DEFINE q2 == Tail(q)
<1>5. /\ q2 \in Seq(C) /\ Len(q2) = Len(q) - 1 /\ Len(q) \in Nat \ {0}
      /\ \A i \in 1..Len(q2) : q2[i] = q[i + 1]
  BY <1>1, <1>3
<1> HIDE DEF q2
<1>6. \A i \in 1..Len(q2) : i + 1 \in 2..Len(q) /\ i + 1 \in 1..Len(q)
  BY <1>5
<1>7. /\ \A i \in 1..Len(q2) : q2[i] \notin {q[k]}
      /\ \A i, j \in 1..Len(q2) : q2[i] = q2[j] => i = j
  <2>1. \A i, j \in 1..Len(q) : q[i] = q[j] => i = j
    BY DEF Chain
  <2>2. \A i \in 1..Len(q2) : q[i + 1] # q[k]
    BY <1>2, <1>5, <1>6, <2>1
  <2>3. \A i, j \in 1..Len(q2) : q2[i] = q2[j] => i = j
    <3> TAKE i, j \in 1..Len(q2)
    <3> HAVE q2[i] = q2[j]
    <3>1. q[i + 1] = q[j + 1]
      BY <1>5
    <3>2. i + 1 = j + 1
      BY <1>6, <2>1, <3>1
    <3> QED BY <1>5, <3>2
  <2> QED BY <1>5, <2>2, <2>3
<1>8. ASSUME NEW i \in 2..Len(q2) PROVE b[q2[i]] = q2[i - 1]
  <2>1. i \in 1..Len(q2) /\ i - 1 \in 1..Len(q2) /\ i + 1 \in 2..Len(q)
    BY <1>5
  <2>2. b[q[i + 1]] = q[(i + 1) - 1]
    BY <2>1 DEF Chain
  <2> QED BY <1>5, <2>1, <2>2
<1>9. last = q[Len(q)]
  BY <1>3 DEF Chain
<1>10. CASE q2 # <<>>
  <2>1. Len(q2) > 0 /\ 1 \in 1..Len(q2) /\ 2 \in 2..Len(q)
    BY <1>5, <1>10
  <2>2. b[q[2]] = q[2 - 1]
    BY <2>1 DEF Chain
  <2>3. b[q2[1]] = q[k]
    BY <1>2, <1>5, <2>1, <2>2
  <2>4. last = q2[Len(q2)]
    BY <1>5, <1>9, <2>1
  <2> QED BY <1>1, <1>2, <1>3, <1>4, <1>5, <1>7, <1>8, <1>10, <2>3, <2>4 DEF Chain, q2
<1>11. CASE q2 = <<>>
  <2>1. Len(q2) = 0
    BY <1>11
  <2>2. Len(q) = 1
    BY <1>5, <2>1
  <2>3. last = q[k]
    BY <1>2, <1>9, <2>2
  <2> QED BY <1>1, <1>2, <1>3, <1>4, <1>5, <1>7, <1>8, <1>11, <2>3 DEF Chain, q2
<1> QED BY <1>10, <1>11

\* When the one inside leaves, nobody is behind it any more.
LEMMA ChainLeave ==
  ASSUME NEW C, NEW none, none \notin C, NEW q, NEW in, NEW b, NEW last,
         Chain(C, none, q, in, b, last), NEW c \in in
  PROVE  Chain(C, none, q, in \ {c}, [u \in C |-> IF b[u] = c THEN none ELSE b[u]],
               IF last = c THEN none ELSE last)
<1> DEFINE b2 == [u \in C |-> IF b[u] = c THEN none ELSE b[u]]
           last2 == IF last = c THEN none ELSE last
<1>1. /\ q \in Seq(C) /\ b \in [C -> C \cup {none}] /\ last \in C \cup {none} /\ c \in C
      /\ \A i \in 1..Len(q) : q[i] \in C /\ q[i] \notin in /\ q[i] # c
  BY DEF Chain
<1>2. in \ {c} = {}
  <2>1. CASE q = <<>>
    BY <2>1 DEF Chain
  <2>2. CASE q # <<>>
    BY <2>2 DEF Chain
  <2> QED BY <2>1, <2>2
<1>3. /\ b2 \in [C -> C \cup {none}] /\ last2 \in C \cup {none}
      /\ \A u \in C : b2[u] = IF b[u] = c THEN none ELSE b[u]
  BY <1>1
<1>4. ASSUME NEW i \in 2..Len(q) PROVE b2[q[i]] = q[i - 1]
  <2>1. i \in 1..Len(q) /\ i - 1 \in 1..Len(q) /\ b[q[i]] = q[i - 1]
    BY <1>1 DEF Chain
  <2> QED BY <1>1, <1>3, <2>1
<1> HIDE DEF b2
<1>5. CASE q # <<>>
  <2>1. 1 \in 1..Len(q) /\ Len(q) \in 1..Len(q)
    BY <1>1, <1>5
  <2>2. b[q[1]] = c /\ last = q[Len(q)]
    BY <1>1, <1>5 DEF Chain
  <2>3. b2[q[1]] = none /\ last2 = q[Len(q)]
    BY <1>1, <1>3, <2>1, <2>2
  <2> QED BY <1>1, <1>2, <1>3, <1>4, <1>5, <2>3 DEF Chain, b2
<1>6. CASE q = <<>>
  <2>1. last = c
    BY <1>1, <1>6 DEF Chain
  <2> QED BY <1>1, <1>2, <1>3, <1>4, <1>6, <2>1 DEF Chain, b2
<1> QED BY <1>5, <1>6

-------------------------------------------------------------------------------
(***************************************************************************)
(* Trivy: the queued tasks are those in asked, and the gates are a chain.  *)
(***************************************************************************)
TrivyChain ==
  /\ run \in [Task -> {"idle", "queued", "running", "ended"}]
  /\ Chain(Task, NoTask, asked, Inside, gate, tail)
  /\ \A t \in Task : run[t] = "queued" <=> \E i \in 1..Len(asked) : asked[i] = t

LEMMA TrivyStarts == TrivyInit => TrivyChain
<1> SUFFICES ASSUME TrivyInit PROVE TrivyChain
  OBVIOUS
<1>1. Inside = {} /\ Len(asked) = 0 /\ asked = <<>>
  BY DEF TrivyInit, Inside
<1> QED BY <1>1, TaskAssumption DEF TrivyInit, TrivyChain, Chain

LEMMA TrivyAsks ==
  ASSUME TrivyChain, NEW t \in Task, AskTrivy(t) \/ AskFormat(t)
  PROVE  TrivyChain' /\ TrivyLock!Ask(t)
<1>1. run[t] \in {"idle", "ended"} /\ Enqueue(t)
  BY DEF AskTrivy, AskFormat
<1>2. /\ run' \in [Task -> {"idle", "queued", "running", "ended"}]
      /\ \A u \in Task : run'[u] = IF u = t THEN "queued" ELSE run[u]
      /\ gate' = [gate EXCEPT ![t] = tail] /\ tail' = t /\ asked' = Append(asked, t)
  BY <1>1 DEF TrivyChain, Enqueue
<1>3. Inside' = Inside /\ t \notin Inside
  BY <1>1, <1>2 DEF Inside
<1>4. (\A i \in 1..Len(asked) : asked[i] # t) /\ asked \in Seq(Task)
  BY <1>1 DEF TrivyChain, Chain
<1>5. Chain(Task, NoTask, asked, Inside, gate, tail)
  BY DEF TrivyChain
<1>6. Chain(Task, NoTask, Append(asked, t), Inside, [gate EXCEPT ![t] = tail], t)
  BY <1>3, <1>4, <1>5, ChainAsk, TaskAssumption
<1>7. \A u \in Task : run'[u] = "queued" <=> \E i \in 1..Len(asked') : asked'[i] = u
  <2>1. /\ Len(asked') = Len(asked) + 1 /\ asked'[Len(asked) + 1] = t /\ Len(asked) \in Nat
        /\ \A i \in 1..Len(asked) : asked'[i] = asked[i]
    BY <1>2, <1>4
  <2>2. ASSUME NEW u \in Task, u # t
        PROVE  (\E i \in 1..Len(asked) : asked[i] = u) <=> \E i \in 1..Len(asked') : asked'[i] = u
    BY <2>1, <2>2
  <2>3. \E i \in 1..Len(asked') : asked'[i] = t
    BY <2>1
  <2> QED BY <1>2, <2>2, <2>3 DEF TrivyChain
<1>8. TrivyChain'
  BY <1>2, <1>3, <1>6, <1>7 DEF TrivyChain
<1> QED BY <1>2, <1>3, <1>4, <1>8 DEF TrivyLock!Ask

LEMMA TrivyEnters ==
  ASSUME TrivyChain, NEW t \in Task, StartTrivy(t)
  PROVE  TrivyChain' /\ TrivyLock!Enter(t)
<1>1. run[t] = "queued" /\ gate[t] = NoTask
  BY DEF StartTrivy
<1>2. PICK k \in 1..Len(asked) : asked[k] = t
  BY <1>1 DEF TrivyChain
<1>3. Chain(Task, NoTask, asked, Inside, gate, tail)
  BY DEF TrivyChain
<1>4. /\ asked # <<>> /\ t = Head(asked) /\ k = 1 /\ Inside = {}
      /\ Chain(Task, NoTask, Tail(asked), {t}, gate, tail)
  BY <1>1, <1>2, <1>3, ChainEnter, TaskAssumption
<1>5. /\ run' \in [Task -> {"idle", "queued", "running", "ended"}]
      /\ \A u \in Task : run'[u] = IF u = t THEN "running" ELSE run[u]
      /\ asked' = Tail(asked) /\ gate' = gate /\ tail' = tail
  BY DEF TrivyChain, StartTrivy
<1>6. Inside' = {t}
  BY <1>4, <1>5 DEF Inside
<1>7. \A u \in Task : run'[u] = "queued" <=> \E i \in 1..Len(asked') : asked'[i] = u
  <2>1. /\ asked \in Seq(Task) /\ \A i, j \in 1..Len(asked) : asked[i] = asked[j] => i = j
    BY <1>3 DEF Chain
  <2>2. /\ Len(asked') = Len(asked) - 1 /\ Len(asked) \in Nat \ {0}
        /\ \A i \in 1..Len(asked') : asked'[i] = asked[i + 1] /\ i + 1 \in 1..Len(asked)
    BY <1>4, <1>5, <2>1
  <2>3. ASSUME NEW u \in Task, u # t, NEW i \in 1..Len(asked), asked[i] = u
        PROVE  \E j \in 1..Len(asked') : asked'[j] = u
    <3>1. i - 1 \in 1..Len(asked') /\ (i - 1) + 1 = i
      BY <1>2, <1>4, <2>2, <2>3
    <3> QED BY <2>2, <2>3, <3>1
  <2>4. \A i \in 1..Len(asked') : asked'[i] # t
    BY <1>2, <1>4, <2>1, <2>2
  <2> QED BY <1>5, <2>2, <2>3, <2>4 DEF TrivyChain
<1>8. TrivyChain'
  BY <1>4, <1>5, <1>6, <1>7 DEF TrivyChain
<1> QED BY <1>4, <1>5, <1>6, <1>8 DEF TrivyLock!Enter

LEMMA TrivyLeaves ==
  ASSUME TrivyChain, NEW t \in Task, EndTrivy(t)
  PROVE  TrivyChain' /\ TrivyLock!Leave(t)
<1>1. /\ run[t] = "running" /\ asked' = asked
      /\ gate' = [u \in Task |-> IF gate[u] = t THEN NoTask ELSE gate[u]]
      /\ tail' = IF tail = t THEN NoTask ELSE tail
  BY DEF EndTrivy, Open
<1>2. /\ run' \in [Task -> {"idle", "queued", "running", "ended"}]
      /\ \A u \in Task : u # t => run'[u] = run[u]
      /\ run'[t] \in {"idle", "ended"}
  BY DEF TrivyChain, EndTrivy
<1>3. t \in Inside /\ Inside' = Inside \ {t}
  BY <1>1, <1>2 DEF Inside
<1>4. Chain(Task, NoTask, asked, Inside, gate, tail)
  BY DEF TrivyChain
<1>5. Chain(Task, NoTask, asked, Inside \ {t},
            [u \in Task |-> IF gate[u] = t THEN NoTask ELSE gate[u]],
            IF tail = t THEN NoTask ELSE tail)
  BY <1>3, <1>4, ChainLeave, TaskAssumption
<1>6. TrivyChain'
  BY <1>1, <1>2, <1>3, <1>5 DEF TrivyChain
<1> QED BY <1>1, <1>3, <1>6 DEF TrivyLock!Leave

LEMMA TrivyKeeps ==
  TrivyChain /\ [TrivyNext]_trivyVars
    => TrivyChain' /\ [TrivyLock!LockNext]_(TrivyLock!lockVars)
<1> SUFFICES ASSUME TrivyChain, [TrivyNext]_trivyVars
             PROVE  TrivyChain' /\ [TrivyLock!LockNext]_(TrivyLock!lockVars)
  OBVIOUS
<1>1. ASSUME NEW t \in Task, AskTrivy(t) \/ AskFormat(t) \/ StartTrivy(t) \/ EndTrivy(t)
      PROVE  TrivyChain' /\ TrivyLock!LockNext
  BY <1>1, TrivyAsks, TrivyEnters, TrivyLeaves DEF TrivyLock!LockNext
<1>2. CASE UNCHANGED trivyVars
  BY <1>2 DEF trivyVars, TrivyLock!lockVars, TrivyChain, Inside
<1> QED BY <1>1, <1>2 DEF TrivyNext

\* TrivyIsLock: whatever calls ask for scans and SBOMs, and however their runs
\* end, the chain of gates of enqueueTrivy (security/scan.ts) is a lock.
THEOREM TrivyIsLock == TrivySpec => RunsTakeTurns
<1>1. TrivyInit => TrivyLock!LockInit
  BY DEF TrivyInit, TrivyLock!LockInit, Inside
<1> QED
  BY <1>1, TrivyStarts, TrivyKeeps, PTL DEF TrivySpec, RunsTakeTurns, TrivyLock!LockSpec

-------------------------------------------------------------------------------
(***************************************************************************)
(* The redirects of a session.  The lock's entry in the map is the last of *)
(* the chain; it goes when the last redirect ends.                         *)
(***************************************************************************)
Holders == {l \in Login : redirect[l] \in {"locked", "read"}}

RedirectChain ==
  /\ redirect \in [Login -> {"none", "queued", "locked", "read", "ok", "failed"}]
  /\ Chain(Login, NoLogin, inLine, Holders, behind, latest)
  /\ \A l \in Login : redirect[l] = "queued" <=> \E i \in 1..Len(inLine) : inLine[i] = l

LEMMA RedirectStarts == OidcInit => RedirectChain
<1> SUFFICES ASSUME OidcInit PROVE RedirectChain
  OBVIOUS
<1>1. Holders = {} /\ Len(inLine) = 0 /\ inLine = <<>>
  BY DEF OidcInit, Holders
<1> QED BY <1>1, LoginAssumption DEF OidcInit, RedirectChain, Chain

LEMMA RedirectAsks ==
  ASSUME RedirectChain, NEW l \in Login, Redirect(l)
  PROVE  RedirectChain' /\ OidcLock!Ask(l)
<1>1. /\ redirect[l] = "none"
      /\ redirect' \in [Login -> {"none", "queued", "locked", "read", "ok", "failed"}]
      /\ \A u \in Login : redirect'[u] = IF u = l THEN "queued" ELSE redirect[u]
      /\ behind' = [behind EXCEPT ![l] = latest] /\ latest' = l /\ inLine' = Append(inLine, l)
  BY DEF RedirectChain, Redirect, AskLock
<1>2. Holders' = Holders /\ l \notin Holders
  BY <1>1 DEF Holders
<1>3. Chain(Login, NoLogin, inLine, Holders, behind, latest)
  BY DEF RedirectChain
<1>4. (\A i \in 1..Len(inLine) : inLine[i] # l) /\ inLine \in Seq(Login)
  BY <1>1 DEF RedirectChain, Chain
<1>5. Chain(Login, NoLogin, Append(inLine, l), Holders, [behind EXCEPT ![l] = latest], l)
  BY <1>2, <1>3, <1>4, ChainAsk, LoginAssumption
<1>6. \A u \in Login : redirect'[u] = "queued" <=> \E i \in 1..Len(inLine') : inLine'[i] = u
  <2>1. /\ Len(inLine') = Len(inLine) + 1 /\ inLine'[Len(inLine) + 1] = l /\ Len(inLine) \in Nat
        /\ \A i \in 1..Len(inLine) : inLine'[i] = inLine[i]
    BY <1>1, <1>4
  <2>2. ASSUME NEW u \in Login, u # l
        PROVE  (\E i \in 1..Len(inLine) : inLine[i] = u) <=> \E i \in 1..Len(inLine') : inLine'[i] = u
    BY <2>1, <2>2
  <2>3. \E i \in 1..Len(inLine') : inLine'[i] = l
    BY <2>1
  <2> QED BY <1>1, <2>2, <2>3 DEF RedirectChain
<1>7. RedirectChain'
  BY <1>1, <1>2, <1>5, <1>6 DEF RedirectChain
<1> QED BY <1>1, <1>2, <1>4, <1>7 DEF OidcLock!Ask, Holders

LEMMA RedirectEnters ==
  ASSUME RedirectChain, NEW l \in Login, Locked(l)
  PROVE  RedirectChain' /\ OidcLock!Enter(l)
<1>1. redirect[l] = "queued" /\ behind[l] = NoLogin
  BY DEF Locked
<1>2. PICK k \in 1..Len(inLine) : inLine[k] = l
  BY <1>1 DEF RedirectChain
<1>3. Chain(Login, NoLogin, inLine, Holders, behind, latest)
  BY DEF RedirectChain
<1>4. /\ inLine # <<>> /\ l = Head(inLine) /\ k = 1 /\ Holders = {}
      /\ Chain(Login, NoLogin, Tail(inLine), {l}, behind, latest)
  BY <1>1, <1>2, <1>3, ChainEnter, LoginAssumption
<1>5. /\ redirect' \in [Login -> {"none", "queued", "locked", "read", "ok", "failed"}]
      /\ \A u \in Login : redirect'[u] = IF u = l THEN "locked" ELSE redirect[u]
      /\ inLine' = Tail(inLine) /\ behind' = behind /\ latest' = latest
  BY DEF RedirectChain, Locked
<1>6. Holders' = {l}
  BY <1>4, <1>5 DEF Holders
<1>7. \A u \in Login : redirect'[u] = "queued" <=> \E i \in 1..Len(inLine') : inLine'[i] = u
  <2>1. /\ inLine \in Seq(Login) /\ \A i, j \in 1..Len(inLine) : inLine[i] = inLine[j] => i = j
    BY <1>3 DEF Chain
  <2>2. /\ Len(inLine') = Len(inLine) - 1 /\ Len(inLine) \in Nat \ {0}
        /\ \A i \in 1..Len(inLine') : inLine'[i] = inLine[i + 1] /\ i + 1 \in 1..Len(inLine)
    BY <1>4, <1>5, <2>1
  <2>3. ASSUME NEW u \in Login, u # l, NEW i \in 1..Len(inLine), inLine[i] = u
        PROVE  \E j \in 1..Len(inLine') : inLine'[j] = u
    <3>1. i - 1 \in 1..Len(inLine') /\ (i - 1) + 1 = i
      BY <1>2, <1>4, <2>2, <2>3
    <3> QED BY <2>2, <2>3, <3>1
  <2>4. \A i \in 1..Len(inLine') : inLine'[i] # l
    BY <1>2, <1>4, <2>1, <2>2
  <2> QED BY <1>5, <2>2, <2>3, <2>4 DEF RedirectChain
<1>8. RedirectChain'
  BY <1>4, <1>5, <1>6, <1>7 DEF RedirectChain
<1> QED BY <1>4, <1>5, <1>6, <1>8 DEF OidcLock!Enter, Holders

LEMMA RedirectReads ==
  ASSUME RedirectChain, NEW l \in Login, Reload(l)
  PROVE  RedirectChain' /\ UNCHANGED OidcLock!lockVars
<1>1. /\ redirect' \in [Login -> {"none", "queued", "locked", "read", "ok", "failed"}]
      /\ redirect[l] = "locked" /\ redirect' = [redirect EXCEPT ![l] = "read"]
      /\ \A u \in Login : redirect'[u] = IF u = l THEN "read" ELSE redirect[u]
      /\ UNCHANGED <<inLine, behind, latest>>
  BY DEF RedirectChain, Reload
<1>2. Holders' = Holders
  BY <1>1 DEF Holders
<1>3. RedirectChain'
  BY <1>1, <1>2 DEF RedirectChain
<1> QED BY <1>1, <1>2, <1>3 DEF OidcLock!lockVars, Holders

LEMMA RedirectLeaves ==
  ASSUME RedirectChain, NEW l \in Login, Save(l)
  PROVE  RedirectChain' /\ OidcLock!Leave(l)
<1>1. /\ redirect[l] = "read" /\ inLine' = inLine
      /\ behind' = [k \in Login |-> IF behind[k] = l THEN NoLogin ELSE behind[k]]
      /\ latest' = IF latest = l THEN NoLogin ELSE latest
  BY DEF Save, ReleaseLock
<1>2. /\ redirect' \in [Login -> {"none", "queued", "locked", "read", "ok", "failed"}]
      /\ \A u \in Login : u # l => redirect'[u] = redirect[u]
      /\ redirect'[l] \in {"ok", "failed"}
  BY DEF RedirectChain, Save
<1>3. l \in Holders /\ Holders' = Holders \ {l}
  BY <1>1, <1>2 DEF Holders
<1>4. Chain(Login, NoLogin, inLine, Holders, behind, latest)
  BY DEF RedirectChain
<1>5. Chain(Login, NoLogin, inLine, Holders \ {l},
            [k \in Login |-> IF behind[k] = l THEN NoLogin ELSE behind[k]],
            IF latest = l THEN NoLogin ELSE latest)
  BY <1>3, <1>4, ChainLeave, LoginAssumption
<1>6. RedirectChain'
  BY <1>1, <1>2, <1>3, <1>5 DEF RedirectChain
<1> QED BY <1>1, <1>3, <1>6 DEF OidcLock!Leave, Holders

LEMMA RedirectKeeps ==
  RedirectChain /\ [OidcNext]_oidcVars
    => RedirectChain' /\ [OidcLock!LockNext]_(OidcLock!lockVars)
<1> SUFFICES ASSUME RedirectChain, [OidcNext]_oidcVars
             PROVE  RedirectChain' /\ [OidcLock!LockNext]_(OidcLock!lockVars)
  OBVIOUS
<1>1. ASSUME NEW l \in Login, Redirect(l) \/ Locked(l) \/ Save(l)
      PROVE  RedirectChain' /\ OidcLock!LockNext
  BY <1>1, RedirectAsks, RedirectEnters, RedirectLeaves DEF OidcLock!LockNext
<1>2. ASSUME NEW l \in Login, Reload(l)
      PROVE  RedirectChain' /\ UNCHANGED OidcLock!lockVars
  BY <1>2, RedirectReads
<1>3. ASSUME UNCHANGED <<redirect, behind, latest, inLine>>
      PROVE  RedirectChain' /\ UNCHANGED OidcLock!lockVars
  BY <1>3 DEF RedirectChain, Holders, OidcLock!lockVars
<1>4. ASSUME NEW l \in Login, Callback(l) \/ Exchanged(l) \/ Expires(l)
      PROVE  UNCHANGED <<redirect, behind, latest, inLine>>
  BY <1>4 DEF Callback, Exchanged, Expires
<1>5. CASE UNCHANGED oidcVars
  BY <1>3, <1>5 DEF oidcVars
<1> QED BY <1>1, <1>2, <1>3, <1>4, <1>5 DEF OidcNext

\* RedirectIsLock: the redirects of a session go through withOidcSessionLock
\* (Oidc.ts) as through a lock, for any number of them, while callbacks run.
THEOREM RedirectIsLock == OidcSpec => TakesTurns
<1>1. OidcInit => OidcLock!LockInit
  BY DEF OidcInit, OidcLock!LockInit
<1> QED
  BY <1>1, RedirectStarts, RedirectKeeps, PTL DEF OidcSpec, TakesTurns, OidcLock!LockSpec

-------------------------------------------------------------------------------
(***************************************************************************)
(* LoginsKept.  A redirect that has read the session has every check there *)
(* is to keep, and its own, or as many as the list may hold: nothing that  *)
(* it is about to save over is lost, for redirects save one at a time.     *)
(***************************************************************************)
Excused(l) == l \in expired \cup cut \cup overrun \/ callback[l].at # "none"
CallbackState == [at : {"none", "exchange", "ok", "failed"}, read : SUBSET Login]
LoginTyped ==
  /\ redirect \in [Login -> {"none", "queued", "locked", "read", "ok", "failed"}]
  /\ now \in Nat /\ created \in [Login -> Nat] /\ \A l \in Login : created[l] <= now
  /\ store \subseteq Login /\ loaded \in [Login -> SUBSET Login] 
  /\ callback \in [Login -> CallbackState]
  /\ expired \subseteq Login /\ \A l \in expired : redirect[l] = "ok"
Newer(S, at, x) == {y \in S : at[y] > at[x]}
HasAll(l) ==
  /\ l \in loaded[l]
  /\ \A k \in Login : redirect[k] = "ok" =>
       k \in loaded[l] \/ Excused(k) \/ Cardinality(loaded[l]) >= MaxPending
OneHolds == \A l, k \in Holders : l = k
ILogin == LoginTyped /\ OneHolds /\ LoginsKept /\ \A l \in Login : redirect[l] = "read" => HasAll(l)

\* The least-number principle, for sets.
LEMMA LeastNumber ==
  ASSUME NEW T, T \subseteq Nat, T # {}
  PROVE  \E n \in T : \A m \in T : n <= m
<1> DEFINE R == OpToRel(<, Nat)
<1>1. IsWellFoundedOn(R, Nat)
  BY NatLessThanWellFounded
<1>2. \A n, m \in Nat : <<m, n>> \in R <=> m < n
  BY DEF OpToRel
<1> HIDE DEF R
<1>3. \E n \in T : \A m \in T : ~(<<m, n>> \in R)
  BY <1>1, WFMin, Zenon
<1>4. PICK n \in T : \A m \in T : ~(<<m, n>> \in R)
  BY <1>3
<1>5. ASSUME NEW m \in T PROVE n <= m
  <2>1. n \in Nat /\ m \in Nat /\ ~(<<m, n>> \in R)
    BY <1>4, Zenon
  <2>2. ~(m < n)
    BY <1>2, <2>1
  <2> QED BY <2>1, <2>2
<1> QED BY <1>5

\* The most recent checks are all of them, or MaxPending and no fewer: of those
\* left out, all that are newer than the newest are kept.
LEMMA RecentAreEnough ==
  ASSUME NEW S, S \subseteq Login, NEW at, \A k \in Login : at[k] \in Nat,
         NEW k \in S, k \notin MostRecent(S, at)
  PROVE  Cardinality(MostRecent(S, at)) >= MaxPending
<1> DEFINE kept == MostRecent(S, at)
           T == {Cardinality(Newer(S, at, x)) : x \in S \ kept}
<1>1. IsFiniteSet(S) /\ MaxPending \in Nat
  BY LoginAssumption, FS_Subset
<1>2. \A x \in S : IsFiniteSet(Newer(S, at, x)) /\ Cardinality(Newer(S, at, x)) \in Nat
  BY <1>1, FS_Subset, FS_CardinalityType DEF Newer
<1>3. T \subseteq Nat /\ T # {}
  BY <1>2
<1>4. PICK n \in T : \A m \in T : n <= m
  BY <1>3, LeastNumber
<1>5. PICK x \in S \ kept : n = Cardinality(Newer(S, at, x))
  OBVIOUS
<1>6. n \in Nat /\ n >= MaxPending
  <2>1. ~(n < MaxPending)
    BY <1>5 DEF MostRecent, Newer
  <2> QED BY <1>1, <1>2, <1>5, <2>1
<1>7. ASSUME NEW y \in Newer(S, at, x) PROVE y \in kept
  <2> SUFFICES ASSUME y \notin kept PROVE FALSE
    OBVIOUS
  <2>1. y \in S
    BY DEF Newer
  <2>2. n <= Cardinality(Newer(S, at, y))
    BY <1>4, <2>1
  <2>3. at[x] \in Nat /\ at[y] \in Nat /\ \A z \in S : at[z] \in Nat
    BY <2>1
  <2>4. Newer(S, at, y) \in SUBSET Newer(S, at, x) /\ y \notin Newer(S, at, y)
    BY <2>3 DEF Newer
  <2>5. /\ Cardinality(Newer(S, at, y)) <= n
        /\ n = Cardinality(Newer(S, at, y)) => Newer(S, at, x) = Newer(S, at, y)
    BY <1>2, <1>5, <2>4, FS_Subset
  <2> PICK c : c = Cardinality(Newer(S, at, y))
    OBVIOUS
  <2>6. c \in Nat /\ n <= c /\ c <= n
    BY <1>2, <2>1, <2>2, <2>5
  <2>7. n = c
    BY <1>6, <2>6
  <2> QED BY <2>4, <2>5, <2>7
<1>8. Newer(S, at, x) \in SUBSET kept /\ IsFiniteSet(kept)
  <2>1. kept \in SUBSET S
    BY DEF MostRecent
  <2> QED BY <1>1, <1>7, <2>1, FS_Subset
<1>9. n <= Cardinality(kept) /\ Cardinality(kept) \in Nat
  BY <1>5, <1>8, FS_Subset, FS_CardinalityType
<1> PICK c : c = Cardinality(kept)
  OBVIOUS
<1>10. c >= MaxPending
  BY <1>1, <1>6, <1>9
<1> QED BY <1>10

\* One redirect at a time has the session in hand.
LEMMA ChainHolds ==
  ASSUME NEW C, NEW none, NEW q, NEW in, NEW b, NEW last, Chain(C, none, q, in, b, last),
         NEW c \in in, NEW d \in in
  PROVE  c = d
BY DEF Chain

LEMMA OneRedirectNext == ASSUME RedirectChain' PROVE OneHolds'
<1> SUFFICES ASSUME NEW l \in Holders', NEW k \in Holders' PROVE l = k
  BY DEF OneHolds
<1>1. Chain(Login, NoLogin, inLine', Holders', behind', latest')
  BY DEF RedirectChain
<1> QED BY <1>1, ChainHolds

\* What excuses a login stays.
LEMMA ExcusedStays ==
  ASSUME LoginTyped, [OidcNext]_oidcVars, NEW l \in Login, Excused(l)
  PROVE  Excused(l)'
<1>1. ASSUME NEW k \in Login, Callback(k) PROVE Excused(l)'
  <2>1. UNCHANGED <<expired, cut, overrun>> /\ callback[k].at = "none"
        /\ callback'[k].at \in {"exchange", "failed"}
        /\ \A u \in Login : u # k => callback'[u] = callback[u]
    BY <1>1 DEF Callback, LoginTyped
  <2> QED BY <2>1 DEF Excused
<1>2. ASSUME NEW k \in Login, Exchanged(k) PROVE Excused(l)'
  <2>1. UNCHANGED <<expired, cut>> /\ overrun \subseteq overrun'
        /\ callback'[k].at \in {"ok", "failed"}
        /\ \A u \in Login : u # k => callback'[u] = callback[u]
    BY <1>2 DEF Exchanged, LoginTyped
  <2>2. CASE l = k
    BY <2>1, <2>2 DEF Excused
  <2>3. CASE l # k
    <3>1. callback'[l] = callback[l]
      BY <2>1, <2>3
    <3> QED BY <2>1, <3>1 DEF Excused
  <2> QED BY <2>2, <2>3
<1>3. ASSUME NEW k \in Login, Redirect(k) \/ Locked(k) \/ Reload(k) \/ Save(k) \/ Expires(k)
      PROVE  Excused(l)'
  <2>1. expired \subseteq expired' /\ cut \subseteq cut' /\ UNCHANGED <<overrun, callback>>
    BY <1>3 DEF Redirect, Locked, Reload, Save, Expires
  <2> QED BY <2>1 DEF Excused
<1>4. CASE UNCHANGED oidcVars
  BY <1>4 DEF oidcVars, Excused
<1> QED BY <1>1, <1>2, <1>3, <1>4 DEF OidcNext

\* A redirect reads what there is to keep.
LEMMA ReloadHasAll ==
  ASSUME ILogin, NEW l \in Login, Reload(l)
  PROVE  HasAll(l)'
<1> PICK at : at = [created EXCEPT ![l] = now + 1]
  OBVIOUS
<1> DEFINE read == Normalized(store, created)
           kept == Normalized(read \cup {l}, at)
<1>1. /\ redirect[l] = "locked" /\ UNCHANGED <<store, callback, expired, cut, overrun>>
      /\ loaded' = [loaded EXCEPT ![l] = kept] /\ redirect' = [redirect EXCEPT ![l] = "read"]
  BY DEF Reload
<1>2. LoginTyped /\ LoginsKept
  BY DEF ILogin
<1>3. /\ \A k \in Login : at[k] \in Nat /\ created[k] \in Nat /\ at[k] <= at[l]
      /\ MaxPending \in Nat \ {0} /\ IsFiniteSet(Login)
  BY <1>2, LoginAssumption DEF LoginTyped
<1>4. /\ read = MostRecent(store \ expired, created) /\ read \subseteq store \ expired
      /\ store \subseteq Login /\ l \notin expired
  BY <1>1, <1>2 DEF Normalized, MostRecent, LoginTyped
<1>5. kept = MostRecent(read \cup {l}, at) /\ kept \subseteq read \cup {l} /\ read \cup {l} \subseteq Login
  <2>1. (read \cup {l}) \ expired = read \cup {l}
    BY <1>4
  <2> QED BY <1>4, <2>1 DEF Normalized, MostRecent
<1> HIDE DEF read, kept
<1>6. l \in kept
  <2>1. {k \in read \cup {l} : at[k] > at[l]} = {}
    BY <1>3, <1>5
  <2>2. Cardinality({k \in read \cup {l} : at[k] > at[l]}) = 0
    BY <2>1, FS_EmptySet
  <2> QED BY <1>3, <1>5, <2>2 DEF MostRecent
<1>7. Cardinality(kept) >= MaxPending \/ kept = read \cup {l}
  <2>1. ASSUME NEW k \in read \cup {l}, k \notin kept PROVE Cardinality(kept) >= MaxPending
    BY <1>3, <1>5, <2>1, RecentAreEnough
  <2> QED BY <1>5, <2>1
<1>8. Cardinality(read) >= MaxPending \/ read = store \ expired
  <2>1. ASSUME NEW k \in store \ expired, k \notin read PROVE Cardinality(read) >= MaxPending
    <3>1. store \ expired \subseteq Login
      BY <1>4
    <3> QED BY <1>3, <1>4, <2>1, <3>1, RecentAreEnough
  <2> QED BY <1>4, <2>1
<1>9. Cardinality(kept) >= MaxPending \/ store \ expired \subseteq kept
  <2>1. CASE kept = read \cup {l} /\ Cardinality(read) >= MaxPending
    <3>1. IsFiniteSet(kept) /\ read \in SUBSET kept
      BY <1>3, <1>5, <2>1, FS_Subset
    <3>2. Cardinality(read) <= Cardinality(kept) /\ Cardinality(read) \in Nat /\ Cardinality(kept) \in Nat
      BY <3>1, FS_Subset, FS_CardinalityType
    <3> QED BY <1>3, <2>1, <3>2
  <2> QED BY <1>7, <1>8, <2>1
<1>10. loaded'[l] = kept
  BY <1>1, <1>2 DEF LoginTyped
<1>11. ASSUME NEW k \in Login, redirect'[k] = "ok"
       PROVE  k \in kept \/ Excused(k)' \/ Cardinality(kept) >= MaxPending
  <2>1. redirect[k] = "ok"
    BY <1>1, <1>2, <1>11 DEF LoginTyped
  <2>2. k \in store \/ Excused(k)
    BY <1>2, <2>1 DEF LoginsKept, Excused
  <2>3. Excused(k) => Excused(k)'
    BY <1>1 DEF Excused
  <2>4. k \in expired => Excused(k)
    BY DEF Excused
  <2> QED BY <1>9, <2>2, <2>3, <2>4
<1> QED BY <1>6, <1>10, <1>11 DEF HasAll

LEMMA LoginTypeStays ==
  ASSUME LoginTyped, [OidcNext]_oidcVars
  PROVE  LoginTyped'
<1>1. ASSUME NEW l \in Login, Redirect(l) PROVE LoginTyped'
  BY <1>1 DEF Redirect, LoginTyped
<1>2. ASSUME NEW l \in Login, Locked(l) PROVE LoginTyped'
  BY <1>2 DEF Locked, LoginTyped
<1>3. ASSUME NEW l \in Login, Reload(l) PROVE LoginTyped'
  <2> PICK at : at = [created EXCEPT ![l] = now + 1]
    OBVIOUS
  <2> PICK kept : kept = Normalized(Normalized(store, created) \cup {l}, at)
    OBVIOUS
  <2>1. kept \subseteq Login
    BY DEF Normalized, MostRecent, LoginTyped
  <2>2. /\ redirect[l] = "locked" /\ redirect' = [redirect EXCEPT ![l] = "read"] /\ now' = now + 1
        /\ created' = at /\ loaded' = [loaded EXCEPT ![l] = kept]
        /\ UNCHANGED <<store, callback, expired>>
    BY <1>3 DEF Reload
  <2>3. now + 1 \in Nat /\ at \in [Login -> Nat] /\ \A k \in Login : at[k] <= now + 1
    BY DEF LoginTyped
  <2>4. \A k \in expired' : redirect'[k] = "ok"
    BY <2>2 DEF LoginTyped
  <2>5. /\ redirect' \in [Login -> {"none", "queued", "locked", "read", "ok", "failed"}]
        /\ loaded' \in [Login -> SUBSET Login]
    BY <2>1, <2>2 DEF LoginTyped
  <2> QED BY <2>2, <2>3, <2>4, <2>5 DEF LoginTyped
<1>4. ASSUME NEW l \in Login, Save(l) PROVE LoginTyped'
  <2>1. /\ redirect[l] = "read" /\ loaded' = [loaded EXCEPT ![l] = {}]
        /\ store' \in {store, loaded[l]}
        /\ redirect' = [redirect EXCEPT ![l] = "ok"] \/ redirect' = [redirect EXCEPT ![l] = "failed"]
        /\ UNCHANGED <<created, now, callback, expired>>
    BY <1>4 DEF Save
  <2>2. /\ redirect' \in [Login -> {"none", "queued", "locked", "read", "ok", "failed"}]
        /\ \A k \in Login : redirect[k] = "ok" => redirect'[k] = "ok"
    BY <2>1 DEF LoginTyped
  <2>3. loaded' \in [Login -> SUBSET Login] /\ store' \subseteq Login
    BY <2>1 DEF LoginTyped
  <2> QED BY <2>1, <2>2, <2>3 DEF LoginTyped
<1>5. ASSUME NEW l \in Login, Callback(l) PROVE LoginTyped'
  <2>1. Normalized(store, created) \subseteq Login
    BY DEF Normalized, MostRecent, LoginTyped
  <2> PICK r : r = IF l \in Normalized(store, created)
                   THEN [at |-> "exchange", read |-> Normalized(store, created)]
                   ELSE [at |-> "failed", read |-> {}]
    OBVIOUS
  <2>2. r \in CallbackState
    BY <2>1 DEF CallbackState
  <2>3. /\ callback' = [callback EXCEPT ![l] = r]
        /\ UNCHANGED <<redirect, created, now, loaded, store, expired>>
    BY <1>5 DEF Callback
  <2> QED BY <2>2, <2>3 DEF LoginTyped
<1>6. ASSUME NEW l \in Login, Exchanged(l) PROVE LoginTyped'
  <2>1. \A r \in CallbackState : r.read \subseteq Login
    BY DEF CallbackState
  <2>2. /\ [at |-> "ok", read |-> {}] \in CallbackState
        /\ [at |-> "failed", read |-> {}] \in CallbackState
    BY DEF CallbackState
  <2>3. callback' \in [Login -> CallbackState] /\ UNCHANGED <<redirect, created, now, loaded, expired>>
    BY <1>6, <2>2, ZenonT(60) DEF Exchanged, LoginTyped
  <2>4. store' \subseteq Login
    BY <1>6, <2>1 DEF Exchanged, LoginTyped, Remaining
  <2> QED BY <2>3, <2>4 DEF LoginTyped
<1>7. ASSUME NEW l \in Login, Expires(l) PROVE LoginTyped'
  BY <1>7 DEF Expires, LoginTyped
<1>8. CASE UNCHANGED oidcVars
  BY <1>8 DEF oidcVars, LoginTyped
<1> QED BY <1>1, <1>2, <1>3, <1>4, <1>5, <1>6, <1>7, <1>8 DEF OidcNext

\* A redirect that waits, or has just been let in, has read nothing yet.
LEMMA LoginWaits ==
  ASSUME ILogin, NEW l \in Login, Redirect(l) \/ Locked(l)
  PROVE  LoginsKept' /\ \A k \in Login : redirect'[k] = "read" => HasAll(k)'
<1>1. /\ UNCHANGED <<loaded, store, callback, expired, cut, overrun>>
      /\ \A k \in Login : redirect'[k] \in {"ok", "read"} => redirect'[k] = redirect[k]
  BY DEF Redirect, Locked, ILogin, LoginTyped
<1>2. LoginsKept'
  BY <1>1 DEF ILogin, LoginsKept
<1>3. ASSUME NEW k \in Login, redirect'[k] = "read" PROVE HasAll(k)'
  BY <1>1, <1>3 DEF ILogin, HasAll, Excused
<1> QED BY <1>2, <1>3

LEMMA LoginReads ==
  ASSUME ILogin, NEW l \in Login, Reload(l)
  PROVE  LoginsKept' /\ \A k \in Login : redirect'[k] = "read" => HasAll(k)'
<1>1. /\ redirect[l] = "locked" /\ redirect' = [redirect EXCEPT ![l] = "read"]
      /\ UNCHANGED <<store, callback, expired, cut, overrun>>
  BY DEF Reload
<1>2. \A k \in Login : redirect'[k] = IF k = l THEN "read" ELSE redirect[k]
  BY <1>1 DEF ILogin, LoginTyped
<1>3. LoginsKept'
  BY <1>1, <1>2 DEF ILogin, LoginsKept
<1>4. ASSUME NEW k \in Login, redirect'[k] = "read" PROVE k = l
  BY <1>1, <1>2, <1>4 DEF ILogin, OneHolds, Holders
<1> QED BY <1>3, <1>4, ReloadHasAll

LEMMA LoginSaves ==
  ASSUME ILogin, NEW l \in Login, Save(l)
  PROVE  LoginsKept' /\ \A k \in Login : redirect'[k] = "read" => HasAll(k)'
<1>1. redirect[l] = "read" /\ UNCHANGED <<callback, expired, overrun>> /\ HasAll(l)
  BY DEF Save, ILogin
<1>2. \A k \in Login : k # l => redirect'[k] = redirect[k]
  BY DEF Save, ILogin, LoginTyped
<1>3. ASSUME NEW k \in Login, redirect'[k] = "read" PROVE FALSE
  <2>1. redirect'[l] # "read"
    BY DEF Save, ILogin, LoginTyped
  <2> QED BY <1>1, <1>2, <1>3, <2>1 DEF ILogin, OneHolds, Holders
<1>4. CASE redirect' = [redirect EXCEPT ![l] = "ok"] /\ store' = loaded[l] /\ cut' = cut \cup Dropped(l)
  <2>1. ASSUME NEW k \in Login, redirect'[k] = "ok"
        PROVE  k \in store' \/ Excused(k)'
    <3>1. CASE k = l
      BY <1>1, <1>4, <3>1 DEF HasAll
    <3>2. CASE k # l
      <4>1. k \in loaded[l] \/ Excused(k) \/ Cardinality(loaded[l]) >= MaxPending
        BY <1>1, <1>2, <2>1, <3>2 DEF HasAll
      <4>2. Excused(k) => Excused(k)'
        BY <1>1, <1>4 DEF Excused
      <4>3. k \in store \/ Excused(k)
        BY <1>2, <2>1, <3>2 DEF ILogin, LoginsKept, Excused
      <4>4. k \in store /\ k \notin loaded[l] /\ Cardinality(loaded[l]) >= MaxPending => Excused(k)'
        BY <1>4 DEF Dropped, Excused
      <4> QED BY <1>4, <4>1, <4>2, <4>3, <4>4
    <3> QED BY <3>1, <3>2
  <2> QED BY <1>3, <2>1 DEF LoginsKept, Excused
<1>5. CASE redirect' = [redirect EXCEPT ![l] = "failed"] /\ UNCHANGED <<store, cut>>
  <2>1. \A k \in Login : redirect'[k] = "ok" => redirect[k] = "ok"
    BY <1>5 DEF ILogin, LoginTyped
  <2> QED BY <1>1, <1>3, <1>5, <2>1 DEF ILogin, LoginsKept
<1> QED BY <1>4, <1>5 DEF Save

\* A callback takes its own check; those saved since it read are overrun.
LEMMA LoginCompletes ==
  ASSUME ILogin, NEW l \in Login, Callback(l) \/ Exchanged(l) \/ Expires(l)
  PROVE  LoginsKept' /\ \A k \in Login : redirect'[k] = "read" => HasAll(k)'
<1>1. UNCHANGED <<redirect, loaded, cut>>
  BY DEF Callback, Exchanged, Expires
<1>2. \A k \in Login : Excused(k) => Excused(k)'
  BY ExcusedStays DEF ILogin, OidcNext
<1>3. ASSUME NEW k \in Login, redirect[k] = "read" PROVE HasAll(k)'
  BY <1>1, <1>2, <1>3 DEF ILogin, HasAll
<1>4. ASSUME NEW k \in Login, redirect[k] = "ok" PROVE k \in store' \/ Excused(k)'
  <2>1. k \in store \/ Excused(k)
    BY <1>4 DEF ILogin, LoginsKept, Excused
  <2>2. CASE store' = store
    BY <1>2, <2>1, <2>2
  <2>3. CASE store' = Remaining(l) /\ overrun' = overrun \cup (store \ callback[l].read) /\ Exchanged(l)
    <3>1. callback'[l].at # "none"
      BY <2>3 DEF Exchanged, ILogin, LoginTyped
    <3> QED BY <1>2, <2>1, <2>3, <3>1 DEF Remaining, Excused
  <2> QED BY <2>2, <2>3 DEF Callback, Exchanged, Expires
<1> QED BY <1>1, <1>3, <1>4 DEF LoginsKept, Excused

LEMMA LoginStep ==
  ASSUME ILogin, OneHolds', [OidcNext]_oidcVars
  PROVE  ILogin'
<1>1. LoginTyped'
  BY LoginTypeStays DEF ILogin
<1>2. LoginsKept' /\ \A k \in Login : redirect'[k] = "read" => HasAll(k)'
  <2>1. CASE OidcNext
    BY <2>1, LoginWaits, LoginReads, LoginSaves, LoginCompletes DEF OidcNext
  <2>2. CASE UNCHANGED oidcVars
    BY <2>2 DEF oidcVars, ILogin, LoginsKept, HasAll, Excused
  <2> QED BY <2>1, <2>2
<1> QED BY <1>1, <1>2 DEF ILogin

LEMMA LoginStarts == OidcInit => ILogin
<1> SUFFICES ASSUME OidcInit PROVE ILogin
  OBVIOUS
<1>1. \A l \in Login : redirect[l] = "none"
  BY DEF OidcInit
<1>2. NoCallback \in CallbackState
  BY DEF NoCallback, CallbackState
<1>3. LoginTyped
  BY <1>2 DEF OidcInit, LoginTyped
<1> QED BY <1>1, <1>3 DEF ILogin, OneHolds, Holders, LoginsKept

(***************************************************************************)
(* LoginsStay: for any number of redirects and callbacks of a session, the *)
(* check of a login whose redirect was answered stays in the saved session *)
(* until its callback, unless it is too old, pushed out by newer ones, or  *)
(* overrun by a callback: what withOidcSessionLock, the reload and the     *)
(* save of Oidc.ts are for.                                                *)
(***************************************************************************)
THEOREM LoginsStay == OidcSpec => []LoginsKept
<1>1. RedirectChain /\ ILogin /\ [OidcNext]_oidcVars => RedirectChain' /\ ILogin'
  <2> SUFFICES ASSUME RedirectChain, ILogin, [OidcNext]_oidcVars PROVE RedirectChain' /\ ILogin'
    OBVIOUS
  <2>1. RedirectChain'
    BY RedirectKeeps
  <2>2. OneHolds'
    BY <2>1, OneRedirectNext
  <2> QED BY <2>1, <2>2, LoginStep
<1>2. ILogin => LoginsKept
  BY DEF ILogin
<1> QED BY <1>1, <1>2, RedirectStarts, LoginStarts, PTL DEF OidcSpec
================================================================================
