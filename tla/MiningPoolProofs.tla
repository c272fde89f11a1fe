-------------------------- MODULE MiningPoolProofs --------------------------
(***************************************************************************)
(* What a miner counts as accepted has been credited, for any workers.     *)
(***************************************************************************)
EXTENDS MiningPool, TLAPS

-----------------------------------------------------------------------------
(***************************************************************************)
(* The conversation of a worker with the pool.                             *)
(***************************************************************************)
JobType == [height : Nat, parent : Nat, live : BOOLEAN]

UpLine ==
  [type : {"subscribe", "authorize"}, id : Nat]
    \cup [type : {"submit"}, id : Nat, job : JobType, kind : {"valid", "block"}]

DownLine ==
  [type : {"notify"}, job : JobType]
    \cup [type : {"response"}, id : Nat, ok : BOOLEAN]

ClientType ==
  [at : {"start", "subscribing", "authorizing", "submitting", "wait"},
   id : Nat, counted : Nat]
    \cup [at : {"mine"}, id : Nat, counted : Nat, job : JobType]

SessionType ==
  [at : {"closed", "read", "push"}, subscribed : BOOLEAN, authorized : BOOLEAN]
    \cup [at : {"block"}, id : Nat, height : Nat,
          subscribed : {TRUE}, authorized : {TRUE}]

RefreshType ==
  [at : {"idle", "wanted"}]
    \cup [at : {"candidate"}, height : Nat]
    \cup [at : {"work"}, height : Nat, parent : Nat]

TypeOK ==
  /\ node \in [height : Nat, pool : Nat, solo : Nat]
  /\ refresh \in [Refresher -> RefreshType]
  /\ session \in [Worker -> SessionType]
  /\ up \in [Worker -> Seq(UpLine)]
  /\ down \in [Worker -> Seq(DownLine)]
  /\ client \in [Worker -> ClientType]

Lines(q) == {q[i] : i \in DOMAIN q}

\* The pool has accepted request id: its answer is under way, or the block of
\* the share, credited already, is being submitted.
Accepted(d, s, id) ==
  \/ \E line \in Lines(d) : line.type = "response" /\ line.id = id /\ line.ok
  \/ s.at = "block" /\ s.id = id

(***************************************************************************)
(* A worker counts a share when the answer to its last request is          *)
(* positive, so every request it can be answered for has to carry its own  *)
(* ID (late answers to earlier ones are skipped), and an answer that is    *)
(* under way has to have its credit in the ledger, which n says.           *)
(***************************************************************************)
Talks(u, d, c, s, r, n) ==
  /\ \A line \in Lines(u) : line.id <= c.id
  /\ \A line \in Lines(d) : line.type = "response" => line.id <= c.id
  /\ s.at = "block" => s.id <= c.id
  /\ r.at # "idle" => s.at = "push"
  /\ c.at = "submitting" => \A line \in Lines(u) : line.id = c.id => line.type = "submit"
  /\ c.counted <= n
  /\ c.at = "submitting" /\ Accepted(d, s, c.id) => c.counted < n

Talk(w) ==
  \A scheme \in PayoutScheme :
    Talks(up[w], down[w], client[w], session[w], refresh[w], ledger[scheme].credited[w])

SoloType ==
  [at : {"work"}, accepted : Nat] \cup [at : {"mine"}, accepted : Nat, height : Nat]

SoloInv == solo \in SoloType /\ solo.accepted <= node.solo

CreditsType ==
  \A scheme \in PayoutScheme : ledger[scheme].credited \in [Worker \cup Other -> Nat]

IInv ==
  /\ TypeOK
  /\ CreditsType
  /\ \A w \in Worker : Talk(w)
  /\ SoloInv

-----------------------------------------------------------------------------
\* The lines of a queue when one is added, when it loses its first ones, and
\* when the jobs they name become stale.
LEMMA AppendLines ==
  ASSUME NEW S, NEW q \in Seq(S), NEW x \in S
  PROVE  Append(q, x) \in Seq(S) /\ Lines(Append(q, x)) = Lines(q) \cup {x}
<1> DEFINE p == Append(q, x)
<1>1. /\ p \in Seq(S) /\ Len(p) = Len(q) + 1 /\ Len(q) \in Nat
      /\ DOMAIN p = 1 .. Len(p) /\ DOMAIN q = 1 .. Len(q)
      /\ p[Len(q) + 1] = x /\ \A i \in 1 .. Len(q) : p[i] = q[i]
  OBVIOUS
<1> HIDE DEF p
<1>2. \A y : y \in Lines(p) <=> \E i \in 1 .. Len(p) : y = p[i]
  BY <1>1 DEF Lines
<1>3. \A y : y \in Lines(q) <=> \E i \in 1 .. Len(q) : y = q[i]
  BY <1>1 DEF Lines
<1>4. Lines(p) = Lines(q) \cup {x}
  <2>1. ASSUME NEW y \in Lines(p) PROVE y \in Lines(q) \cup {x}
    <3>1. PICK i \in 1 .. Len(p) : y = p[i]
      BY <1>2
    <3>2. CASE i = Len(q) + 1
      BY <1>1, <3>1, <3>2
    <3>3. CASE i # Len(q) + 1
      <4>1. i \in 1 .. Len(q)
        BY <1>1, <3>1, <3>3
      <4> QED
        BY <1>1, <1>3, <3>1, <4>1
    <3> QED
      BY <3>2, <3>3
  <2>2. ASSUME NEW y \in Lines(q) \cup {x} PROVE y \in Lines(p)
    <3>1. CASE y = x
      <4>1. Len(q) + 1 \in 1 .. Len(p)
        BY <1>1
      <4> QED
        BY <1>1, <1>2, <3>1, <4>1
    <3>2. CASE y \in Lines(q)
      <4>1. PICK i \in 1 .. Len(q) : y = q[i]
        BY <1>3, <3>2
      <4>2. i \in 1 .. Len(p) /\ y = p[i]
        BY <1>1, <4>1
      <4> QED
        BY <1>2, <4>2
    <3> QED
      BY <3>1, <3>2
  <2> QED
    BY <2>1, <2>2
<1> QED
  BY <1>1, <1>4 DEF p

LEMMA RestLines ==
  ASSUME NEW S, NEW q \in Seq(S), NEW n \in 0 .. Len(q)
  PROVE  /\ SubSeq(q, n + 1, Len(q)) \in Seq(S)
         /\ Lines(SubSeq(q, n + 1, Len(q))) \subseteq Lines(q)
<1> DEFINE p == SubSeq(q, n + 1, Len(q))
<1>1. p \in Seq(S)
  OBVIOUS
<1>2. DOMAIN p = 1 .. (Len(q) - n) /\ \A i \in 1 .. (Len(q) - n) : p[i] = q[i + n]
  OBVIOUS
<1>3. DOMAIN q = 1 .. Len(q) /\ Len(q) \in Nat
  OBVIOUS
<1> HIDE DEF p
<1>4. \A i \in DOMAIN p : p[i] \in Lines(q)
  <2> SUFFICES ASSUME NEW i \in DOMAIN p PROVE p[i] \in Lines(q)
    OBVIOUS
  <2>1. i + n \in DOMAIN q /\ p[i] = q[i + n]
    BY <1>2, <1>3
  <2> QED
    BY <2>1 DEF Lines
<1> QED
  BY <1>1, <1>4 DEF Lines, p

LEMMA TailLines ==
  ASSUME NEW S, NEW q \in Seq(S), q # <<>>
  PROVE  /\ Head(q) \in S /\ Head(q) \in Lines(q)
         /\ Tail(q) \in Seq(S) /\ Lines(Tail(q)) \subseteq Lines(q)
<1>1. Len(q) \in Nat \ {0} /\ DOMAIN q = 1 .. Len(q)
  OBVIOUS
<1>2. Head(q) = q[1] /\ 1 \in DOMAIN q /\ q[1] \in S
  BY <1>1
<1> DEFINE p == Tail(q)
<1>3. /\ p \in Seq(S) /\ DOMAIN p = 1 .. (Len(q) - 1)
      /\ \A i \in 1 .. (Len(q) - 1) : p[i] = q[i + 1]
  OBVIOUS
<1> HIDE DEF p
<1>4. \A i \in DOMAIN p : p[i] \in Lines(q)
  <2> SUFFICES ASSUME NEW i \in DOMAIN p PROVE p[i] \in Lines(q)
    OBVIOUS
  <2>1. i + 1 \in DOMAIN q /\ p[i] = q[i + 1]
    BY <1>1, <1>3
  <2> QED
    BY <2>1 DEF Lines
<1> QED
  BY <1>2, <1>3, <1>4 DEF Lines, p

LEMMA StaleLines ==
  ASSUME NEW S, NEW q \in Seq(S), \A x \in S : Stale(x) \in S
  PROVE  /\ [i \in DOMAIN q |-> Stale(q[i])] \in Seq(S)
         /\ Lines([i \in DOMAIN q |-> Stale(q[i])]) = {Stale(x) : x \in Lines(q)}
<1>1. Len(q) \in Nat /\ DOMAIN q = 1 .. Len(q) /\ \A i \in 1 .. Len(q) : q[i] \in S
  OBVIOUS
<1> DEFINE p == [i \in 1 .. Len(q) |-> Stale(q[i])]
<1>2. p \in Seq(S)
  BY <1>1
<1>3. DOMAIN p = 1 .. Len(q) /\ \A i \in 1 .. Len(q) : p[i] = Stale(q[i])
  OBVIOUS
<1>4. p = [i \in DOMAIN q |-> Stale(q[i])]
  BY <1>1
<1> HIDE DEF p
<1>5. Lines(p) = {Stale(x) : x \in Lines(q)}
  BY <1>1, <1>3 DEF Lines
<1> QED
  BY <1>2, <1>4, <1>5

\* Staling a line leaves its type and its ID.
LEMMA StaleIs ==
  /\ \A x \in UpLine : Stale(x) \in UpLine /\ Stale(x).id = x.id /\ Stale(x).type = x.type
  /\ \A x \in DownLine : /\ Stale(x) \in DownLine
                         /\ Stale(x).type = x.type
                         /\ x.type = "response" => Stale(x) = x
<1>1. ASSUME NEW x \in UpLine
      PROVE  Stale(x) \in UpLine /\ Stale(x).id = x.id /\ Stale(x).type = x.type
  BY Zenon DEF UpLine, JobType, Stale
<1>2. ASSUME NEW x \in DownLine
      PROVE  /\ Stale(x) \in DownLine
             /\ Stale(x).type = x.type
             /\ x.type = "response" => Stale(x) = x
  BY Zenon DEF DownLine, JobType, Stale
<1> QED
  BY <1>1, <1>2

-----------------------------------------------------------------------------
\* Credits are never taken back.
CreditsGrow ==
  \A scheme \in PayoutScheme, w \in Worker :
    ledger[scheme].credited[w] <= ledger'[scheme].credited[w]

LEMMA CreditsAreNat ==
  ASSUME CreditsType
  PROVE  \A scheme \in PayoutScheme, w \in Worker : ledger[scheme].credited[w] \in Nat
BY DEF CreditsType

LEMMA SameLedger ==
  ASSUME CreditsType, ledger' = ledger
  PROVE  CreditsType' /\ CreditsGrow
<1>1. CreditsType'
  BY DEF CreditsType
<1>2. CreditsGrow
  BY CreditsAreNat DEF CreditsGrow
<1> QED
  BY <1>1, <1>2

LEMMA CreditStep ==
  ASSUME CreditsType, NEW w \in Worker \cup Other, NEW kind \in {"valid", "block"},
         CreditShare(w, kind)
  PROVE  /\ CreditsType' /\ CreditsGrow
         /\ \A scheme \in PayoutScheme :
              ledger'[scheme].credited[w] = ledger[scheme].credited[w] + 1
<1>1. ASSUME NEW scheme \in PayoutScheme
      PROVE  /\ ledger'[scheme].credited = [ledger[scheme].credited EXCEPT ![w] = @ + 1]
             /\ ledger[scheme].credited \in [Worker \cup Other -> Nat]
  BY Zenon DEF CreditShare, Credited, CreditsType
<1>2. ASSUME NEW scheme \in PayoutScheme
      PROVE  /\ ledger'[scheme].credited \in [Worker \cup Other -> Nat]
             /\ ledger'[scheme].credited[w] = ledger[scheme].credited[w] + 1
             /\ \A v \in Worker : ledger[scheme].credited[v] <= ledger'[scheme].credited[v]
  <2> DEFINE f == ledger[scheme].credited
             g == ledger'[scheme].credited
  <2>1. f \in [Worker \cup Other -> Nat] /\ g = [f EXCEPT ![w] = @ + 1]
    BY <1>1
  <2> HIDE DEF f, g
  <2>2. /\ g \in [Worker \cup Other -> Nat] /\ g[w] = f[w] + 1
        /\ \A v \in Worker : f[v] <= g[v]
    BY <2>1
  <2> QED
    BY <2>2 DEF f, g
<1> QED
  BY Zenon, <1>2 DEF CreditsType, CreditsGrow

\* A conversation that goes on as it is.
LEMMA TalksOn ==
  ASSUME NEW u, NEW d, NEW c \in ClientType, NEW s, NEW r, NEW n \in Nat, NEW m \in Nat,
         Talks(u, d, c, s, r, n), n <= m
  PROVE  Talks(u, d, c, s, r, m)
<1>1. c.counted \in Nat
  BY DEF ClientType
<1> QED
  BY <1>1 DEF Talks

(***************************************************************************)
(* A step of one conversation: it becomes u, d, c, s, r, and nobody's      *)
(* credit falls.                                                           *)
(***************************************************************************)
LEMMA StepOfOne ==
  ASSUME IInv, NEW w \in Worker, NEW u \in Seq(UpLine), NEW d \in Seq(DownLine),
         NEW c \in ClientType, NEW s \in SessionType, NEW r \in RefreshType,
         up' = [up EXCEPT ![w] = u], down' = [down EXCEPT ![w] = d],
         client' = [client EXCEPT ![w] = c], session' = [session EXCEPT ![w] = s],
         refresh' = [refresh EXCEPT ![w] = r],
         node' \in [height : Nat, pool : Nat, solo : Nat], node'.solo = node.solo,
         solo' = solo, CreditsType', CreditsGrow,
         \A scheme \in PayoutScheme : Talks(u, d, c, s, r, ledger'[scheme].credited[w])
  PROVE  IInv'
<1>1. TypeOK'
  BY DEF IInv, TypeOK, Refresher
<1>2. /\ up'[w] = u /\ down'[w] = d /\ client'[w] = c /\ session'[w] = s
      /\ refresh'[w] = r
  BY DEF IInv, TypeOK, Refresher
<1>3. \A v \in Worker \ {w} :
        /\ up'[v] = up[v] /\ down'[v] = down[v] /\ client'[v] = client[v]
        /\ session'[v] = session[v] /\ refresh'[v] = refresh[v]
  BY DEF IInv, TypeOK, Refresher
<1>4. ASSUME NEW v \in Worker PROVE Talk(v)'
  <2>1. CASE v = w
    BY <1>2, <2>1 DEF Talk
  <2>2. CASE v # w
    <3> SUFFICES ASSUME NEW scheme \in PayoutScheme
                 PROVE  Talks(up[v], down[v], client[v], session[v], refresh[v],
                              ledger'[scheme].credited[v])
      BY <1>3, <2>2 DEF Talk
    <3> DEFINE n == ledger[scheme].credited[v]
               m == ledger'[scheme].credited[v]
    <3>1. n \in Nat /\ m \in Nat /\ n <= m
      BY CreditsAreNat DEF IInv, CreditsType, CreditsGrow
    <3>2. Talks(up[v], down[v], client[v], session[v], refresh[v], n)
      BY DEF IInv, Talk
    <3>3. client[v] \in ClientType
      BY DEF IInv, TypeOK
    <3> HIDE DEF n, m
    <3>4. Talks(up[v], down[v], client[v], session[v], refresh[v], m)
      BY <3>1, <3>2, <3>3, TalksOn
    <3> QED
      BY <3>4 DEF m
  <2> QED
    BY <2>1, <2>2
<1>5. SoloInv'
  BY DEF IInv, SoloInv
<1> QED
  BY <1>1, <1>4, <1>5 DEF IInv

-----------------------------------------------------------------------------
\* What the invariant says of the conversation of w.
LEMMA Conversation ==
  ASSUME IInv, NEW w \in Worker
  PROVE  /\ up[w] \in Seq(UpLine) /\ down[w] \in Seq(DownLine)
         /\ client[w] \in ClientType /\ session[w] \in SessionType
         /\ refresh[w] \in RefreshType
         /\ up = [up EXCEPT ![w] = up[w]] /\ down = [down EXCEPT ![w] = down[w]]
         /\ client = [client EXCEPT ![w] = client[w]]
         /\ session = [session EXCEPT ![w] = session[w]]
         /\ refresh = [refresh EXCEPT ![w] = refresh[w]]
         /\ node \in [height : Nat, pool : Nat, solo : Nat]
         /\ client[w].id \in Nat /\ client[w].counted \in Nat
         /\ \A scheme \in PayoutScheme :
              /\ ledger[scheme].credited[w] \in Nat
              /\ Talks(up[w], down[w], client[w], session[w], refresh[w],
                       ledger[scheme].credited[w])
         /\ CreditsType
<1>1. /\ up[w] \in Seq(UpLine) /\ down[w] \in Seq(DownLine)
      /\ client[w] \in ClientType /\ session[w] \in SessionType
      /\ refresh[w] \in RefreshType
      /\ node \in [height : Nat, pool : Nat, solo : Nat]
  BY DEF IInv, TypeOK, Refresher
<1>2. up = [up EXCEPT ![w] = up[w]] /\ down = [down EXCEPT ![w] = down[w]]
  BY DEF IInv, TypeOK
<1>3. client = [client EXCEPT ![w] = client[w]] /\ session = [session EXCEPT ![w] = session[w]]
  BY DEF IInv, TypeOK
<1>4. refresh = [refresh EXCEPT ![w] = refresh[w]]
  BY DEF IInv, TypeOK
<1>5. client[w].id \in Nat /\ client[w].counted \in Nat
  BY <1>1 DEF ClientType
<1>6. \A scheme \in PayoutScheme :
        /\ ledger[scheme].credited[w] \in Nat
        /\ Talks(up[w], down[w], client[w], session[w], refresh[w],
                 ledger[scheme].credited[w])
  BY CreditsAreNat DEF IInv, Talk
<1> QED
  BY <1>1, <1>2, <1>3, <1>4, <1>5, <1>6 DEF IInv

LEMMA ResponseType ==
  ASSUME NEW id \in Nat, NEW ok \in BOOLEAN
  PROVE  /\ Response(id, ok) \in DownLine /\ Response(id, ok).type = "response"
         /\ Response(id, ok).id = id /\ Response(id, ok).ok = ok
BY DEF Response, DownLine

(***************************************************************************)
(* The server answers the first line: with a credit when it says yes to a  *)
(* share.                                                                  *)
(***************************************************************************)
LEMMA AnswerTalks ==
  ASSUME NEW u \in Seq(UpLine), u # <<>>, NEW d \in Seq(DownLine), NEW c \in ClientType,
         NEW s, NEW t, NEW r, NEW q, NEW n \in Nat, NEW m \in Nat,
         NEW answer \in DownLine, answer.type = "response", answer.id = Head(u).id,
         answer.ok /\ Head(u).type = "submit" => m = n + 1,
         Talks(u, d, c, s, r, n), n <= m,
         s.at # "block", t.at # "block", q.at # "idle" => t.at = "push"
  PROVE  /\ Talks(Tail(u), Append(d, answer), c, t, q, m)
         /\ Tail(u) \in Seq(UpLine)
         /\ Append(d, answer) \in Seq(DownLine)
<1> DEFINE line == Head(u)
           e == Append(d, answer)
           v == Tail(u)
<1>1. line \in UpLine /\ line \in Lines(u) /\ v \in Seq(UpLine) /\ Lines(v) \subseteq Lines(u)
  BY TailLines
<1>2. line.id \in Nat /\ c.id \in Nat /\ c.counted \in Nat
  BY <1>1 DEF UpLine, ClientType
<1>3. answer.id = line.id
  OBVIOUS
<1> HIDE DEF line
<1>4. e \in Seq(DownLine) /\ Lines(e) = Lines(d) \cup {answer}
  BY AppendLines
<1> HIDE DEF e, v
<1>5. line.id <= c.id /\ (c.at = "submitting" /\ line.id = c.id => line.type = "submit")
  BY <1>1 DEF Talks
<1>6. /\ \A x \in Lines(v) : x.id <= c.id
      /\ \A x \in Lines(e) : x.type = "response" => x.id <= c.id
      /\ c.at = "submitting" => \A x \in Lines(v) : x.id = c.id => x.type = "submit"
  BY <1>1, <1>3, <1>4, <1>5 DEF Talks
<1>7. c.counted <= n /\ c.counted <= m
  BY <1>2 DEF Talks
<1>8. ASSUME c.at = "submitting", Accepted(e, t, c.id) PROVE c.counted < m
  <2>1. PICK x \in Lines(e) : x.type = "response" /\ x.id = c.id /\ x.ok
    BY <1>8 DEF Accepted
  <2>2. CASE x \in Lines(d)
    <3>1. Accepted(d, s, c.id)
      BY <2>1, <2>2 DEF Accepted
    <3> QED
      BY <1>2, <1>8, <3>1 DEF Talks
  <2>3. CASE x = answer
    <3>1. answer.ok /\ line.type = "submit"
      BY <1>3, <1>5, <1>8, <2>1, <2>3
    <3> QED
      BY <1>2, <1>7, <3>1 DEF line
  <2> QED
    BY <1>4, <2>1, <2>2, <2>3
<1>9. Talks(v, e, c, t, q, m)
  BY <1>6, <1>7, <1>8 DEF Talks
<1> QED
  BY <1>1, <1>4, <1>9 DEF e, v

\* What a line that the server reads tells.
LEMMA LineIs ==
  ASSUME IInv, NEW w \in Worker, NEW method, Line(w, method)
  PROVE  /\ session[w].at = "read" /\ refresh[w].at = "idle"
         /\ session[w] \in [at : {"closed", "read", "push"}, subscribed : BOOLEAN,
                            authorized : BOOLEAN]
         /\ up[w] # <<>> /\ Head(up[w]) \in UpLine /\ Head(up[w]).type = method
         /\ Head(up[w]).id \in Nat /\ Head(up[w]).id <= client[w].id
         /\ up' = [up EXCEPT ![w] = Tail(up[w])]
<1>1. up[w] \in Seq(UpLine) /\ session[w] \in SessionType /\ session[w].at = "read"
  BY Conversation DEF Line
<1>2. up[w] # <<>> /\ Head(up[w]).type = method /\ up' = [up EXCEPT ![w] = Tail(up[w])]
  BY DEF Line
<1>3. Head(up[w]) \in UpLine /\ Head(up[w]) \in Lines(up[w])
  BY <1>1, <1>2, TailLines
<1>4. Talks(up[w], down[w], client[w], session[w], refresh[w], ledger["solo"].credited[w])
  BY Conversation DEF PayoutScheme
<1>5. Head(up[w]).id <= client[w].id /\ refresh[w].at = "idle"
  BY <1>1, <1>3, <1>4 DEF Talks
<1> QED
  BY Zenon, <1>1, <1>2, <1>3, <1>5 DEF SessionType, UpLine

(***************************************************************************)
(* A line that is answered at once.                                        *)
(***************************************************************************)
LEMMA AnswerStep ==
  ASSUME IInv, NEW w \in Worker, session[w].at = "read", up[w] # <<>>,
         up' = [up EXCEPT ![w] = Tail(up[w])],
         NEW answer \in DownLine, answer.type = "response", answer.id = Head(up[w]).id,
         down' = [down EXCEPT ![w] = Append(down[w], answer)],
         NEW t \in SessionType, session' = [session EXCEPT ![w] = t], t.at # "block",
         NEW q \in RefreshType, refresh' = [refresh EXCEPT ![w] = q],
         q.at # "idle" => t.at = "push",
         UNCHANGED <<node, client, solo>>, CreditsType', CreditsGrow,
         answer.ok /\ Head(up[w]).type = "submit" =>
           \A scheme \in PayoutScheme :
             ledger'[scheme].credited[w] = ledger[scheme].credited[w] + 1
  PROVE  IInv'
<1>1. ASSUME NEW scheme \in PayoutScheme
      PROVE  /\ Talks(Tail(up[w]), Append(down[w], answer),
                      client[w], t, q, ledger'[scheme].credited[w])
             /\ Tail(up[w]) \in Seq(UpLine)
             /\ Append(down[w], answer) \in Seq(DownLine)
  <2>1. /\ up[w] \in Seq(UpLine) /\ down[w] \in Seq(DownLine) /\ client[w] \in ClientType
        /\ ledger[scheme].credited[w] \in Nat
        /\ Talks(up[w], down[w], client[w], session[w], refresh[w],
                 ledger[scheme].credited[w])
    BY Conversation
  <2>2. /\ ledger'[scheme].credited[w] \in Nat
        /\ ledger[scheme].credited[w] <= ledger'[scheme].credited[w]
    BY DEF CreditsType, CreditsGrow
  <2>3. answer.ok /\ Head(up[w]).type = "submit" =>
          ledger'[scheme].credited[w] = ledger[scheme].credited[w] + 1
    OBVIOUS
  <2> DEFINE u == up[w]
             d == down[w]
             c == client[w]
             s == session[w]
             r == refresh[w]
             n == ledger[scheme].credited[w]
             m == ledger'[scheme].credited[w]
  <2>4. /\ u \in Seq(UpLine) /\ u # <<>> /\ d \in Seq(DownLine) /\ c \in ClientType
        /\ n \in Nat /\ m \in Nat /\ answer.id = Head(u).id
        /\ answer.ok /\ Head(u).type = "submit" => m = n + 1
        /\ Talks(u, d, c, s, r, n) /\ n <= m
        /\ s.at # "block"
    BY <2>1, <2>2, <2>3
  <2> HIDE DEF u, d, c, s, r, n, m
  <2>5. Talks(Tail(u), Append(d, answer), c, t, q, m)
    BY Zenon, <2>4, AnswerTalks
  <2>6. Tail(u) \in Seq(UpLine) /\ Append(d, answer) \in Seq(DownLine)
    BY <2>4
  <2> QED
    BY <2>5, <2>6 DEF u, d, c, m
<1>2. Tail(up[w]) \in Seq(UpLine) /\ Append(down[w], answer) \in Seq(DownLine)
  BY <1>1 DEF PayoutScheme
<1>3. /\ client' = [client EXCEPT ![w] = client[w]] /\ client[w] \in ClientType
      /\ node' \in [height : Nat, pool : Nat, solo : Nat]
  BY Conversation
<1> QED
  BY Zenon, <1>1, <1>2, <1>3, StepOfOne

LEMMA SubscribeStep ==
  ASSUME IInv, NEW w \in Worker, Subscribe(w)
  PROVE  IInv'
<1> DEFINE t == [session[w] EXCEPT !.subscribed = TRUE]
           q == refresh[w]
           answer == Response(Head(up[w]).id, TRUE)
<1>1. /\ Line(w, "subscribe") /\ session' = [session EXCEPT ![w] = t]
      /\ down' = [down EXCEPT ![w] = Append(down[w], answer)]
      /\ UNCHANGED <<node, refresh, client, ledger, solo>>
  BY Conversation DEF Subscribe, Answer
<1>2. t \in SessionType /\ t.at = "read"
  BY Zenon, <1>1, LineIs DEF SessionType
<1>3. CreditsType' /\ CreditsGrow
  BY <1>1, SameLedger DEF IInv
<1>4. /\ refresh' = [refresh EXCEPT ![w] = q] /\ q \in RefreshType
      /\ q.at = "idle"
  BY <1>1, Conversation, LineIs
<1>5. answer \in DownLine /\ answer.type = "response" /\ answer.id = Head(up[w]).id
  BY Zenon, <1>1, LineIs, ResponseType
<1>6. t.at # "block" /\ (q.at # "idle" => t.at = "push")
  BY <1>2, <1>4
<1>7. UNCHANGED <<node, client, solo>>
  BY <1>1
<1>8. /\ session[w].at = "read" /\ up[w] # <<>> /\ Head(up[w]).type # "submit"
      /\ up' = [up EXCEPT ![w] = Tail(up[w])]
  BY <1>1, LineIs
<1> HIDE DEF t, q, answer
<1> QED
  BY Zenon, <1>1, <1>2, <1>3, <1>4, <1>5, <1>6, <1>7, <1>8, AnswerStep

LEMMA AuthorizeStep ==
  ASSUME IInv, NEW w \in Worker, Authorize(w)
  PROVE  IInv'
<1> DEFINE t == [session[w] EXCEPT !.authorized = TRUE,
                                   !.at = IF session[w].subscribed THEN "push" ELSE "read"]
           q == IF session[w].subscribed THEN [at |-> "wanted"] ELSE refresh[w]
           answer == Response(Head(up[w]).id, TRUE)
<1>1. /\ Line(w, "authorize")
      /\ down' = [down EXCEPT ![w] = Append(down[w], answer)]
      /\ UNCHANGED <<node, client, ledger, solo>>
  BY DEF Authorize, Answer
<1>2. session' = [session EXCEPT ![w] = t]
  BY Zenon DEF Authorize, IInv, TypeOK
<1>3. refresh' = [refresh EXCEPT ![w] = q]
  BY Zenon, Conversation DEF Authorize
<1>4. /\ session[w] \in [at : {"closed", "read", "push"}, subscribed : BOOLEAN,
                         authorized : BOOLEAN]
      /\ refresh[w].at = "idle" /\ refresh[w] \in RefreshType
  BY <1>1, LineIs, Conversation
<1>5. t \in SessionType /\ t.at = IF session[w].subscribed THEN "push" ELSE "read"
  BY Zenon, <1>4 DEF SessionType
<1>6. q \in RefreshType /\ (q.at # "idle" => t.at = "push")
  <2>1. [at |-> "wanted"] \in RefreshType
    BY DEF RefreshType
  <2> QED
    BY <1>4, <1>5, <2>1
<1>7. CreditsType' /\ CreditsGrow
  BY <1>1, SameLedger DEF IInv
<1>8. t.at # "block"
  BY <1>5
<1>9. answer \in DownLine /\ answer.type = "response" /\ answer.id = Head(up[w]).id
  BY Zenon, <1>1, LineIs, ResponseType
<1>10. /\ session[w].at = "read" /\ up[w] # <<>> /\ Head(up[w]).type # "submit"
       /\ up' = [up EXCEPT ![w] = Tail(up[w])]
  BY <1>1, LineIs
<1> HIDE DEF t, q, answer
<1> QED
  BY Zenon, <1>1, <1>2, <1>3, <1>5, <1>6, <1>7, <1>8, <1>9, <1>10, AnswerStep

LEMMA SubmitStep ==
  ASSUME IInv, NEW w \in Worker, Submit(w)
  PROVE  IInv'
<1> DEFINE line == Head(up[w])
<1>1. Line(w, "submit") /\ UNCHANGED <<node, refresh, client, solo>>
  BY DEF Submit
<1>2. /\ session[w].at = "read" /\ refresh[w].at = "idle"
      /\ up[w] # <<>> /\ line \in UpLine /\ line.type = "submit"
      /\ line.id \in Nat /\ line.id <= client[w].id
      /\ up' = [up EXCEPT ![w] = Tail(up[w])]
  BY <1>1, LineIs
<1>3. line.job \in JobType /\ line.job.height \in Nat
  BY <1>2 DEF UpLine, JobType
<1>4. /\ session = [session EXCEPT ![w] = session[w]] /\ session[w] \in SessionType
      /\ refresh' = [refresh EXCEPT ![w] = refresh[w]] /\ refresh[w] \in RefreshType
      /\ session[w].at # "block" /\ (refresh[w].at # "idle" => session[w].at = "push")
  BY <1>1, <1>2, Conversation
<1>5. CASE Answer(w, FALSE) /\ UNCHANGED <<session, ledger>>
  <2> DEFINE answer == Response(line.id, FALSE)
  <2>1. answer \in DownLine /\ answer.type = "response" /\ answer.id = line.id /\ ~answer.ok
    BY Zenon, <1>2, ResponseType
  <2>2. down' = [down EXCEPT ![w] = Append(down[w], answer)]
    BY <1>5 DEF Answer
  <2>3. CreditsType' /\ CreditsGrow
    BY <1>5, SameLedger DEF IInv
  <2>4. session' = [session EXCEPT ![w] = session[w]]
    BY <1>4, <1>5
  <2> HIDE DEF answer
  <2> QED
    BY Zenon, <1>1, <1>2, <1>4, <2>1, <2>2, <2>3, <2>4, AnswerStep
<1>6. CASE CreditShare(w, "valid") /\ Answer(w, TRUE) /\ UNCHANGED session
  <2> DEFINE answer == Response(line.id, TRUE)
  <2>1. answer \in DownLine /\ answer.type = "response" /\ answer.id = line.id
    BY Zenon, <1>2, ResponseType
  <2>2. down' = [down EXCEPT ![w] = Append(down[w], answer)]
    BY <1>6 DEF Answer
  <2>3. /\ CreditsType' /\ CreditsGrow
        /\ \A scheme \in PayoutScheme :
             ledger'[scheme].credited[w] = ledger[scheme].credited[w] + 1
    BY <1>6, CreditStep DEF IInv
  <2>4. session' = [session EXCEPT ![w] = session[w]]
    BY <1>4, <1>6
  <2> HIDE DEF answer
  <2> QED
    BY Zenon, <1>1, <1>2, <1>4, <2>1, <2>2, <2>3, <2>4, AnswerStep
<1>7. CASE /\ CreditShare(w, "block") /\ UNCHANGED down
           /\ session' = [session EXCEPT ![w] = [at |-> "block", id |-> line.id,
                            height |-> line.job.height,
                            subscribed |-> TRUE, authorized |-> TRUE]]
  <2> DEFINE t == [at |-> "block", id |-> line.id, height |-> line.job.height,
                   subscribed |-> TRUE, authorized |-> TRUE]
             u == Tail(up[w])
  <2>1. t \in SessionType /\ t.at = "block" /\ t.id = line.id
    BY <1>2, <1>3 DEF SessionType
  <2>2. /\ CreditsType' /\ CreditsGrow
        /\ \A scheme \in PayoutScheme :
             ledger'[scheme].credited[w] = ledger[scheme].credited[w] + 1
    BY <1>7, CreditStep DEF IInv
  <2>3. session' = [session EXCEPT ![w] = t]
    BY <1>7
  <2>4. u \in Seq(UpLine) /\ Lines(u) \subseteq Lines(up[w])
    BY <1>2, Conversation, TailLines
  <2> HIDE DEF t, u
  <2>5. ASSUME NEW scheme \in PayoutScheme
        PROVE  Talks(u, down[w], client[w], t, refresh[w], ledger'[scheme].credited[w])
    <3> DEFINE n == ledger[scheme].credited[w]
               m == ledger'[scheme].credited[w]
    <3>1. /\ n \in Nat /\ client[w].counted \in Nat /\ m = n + 1
          /\ Talks(up[w], down[w], client[w], session[w], refresh[w], n)
      BY <2>2, Conversation
    <3> HIDE DEF n, m
    <3>2. Talks(u, down[w], client[w], t, refresh[w], m)
      BY <1>2, <2>1, <2>4, <3>1 DEF Talks
    <3> QED
      BY <3>2 DEF m
  <2>6. /\ down' = [down EXCEPT ![w] = down[w]] /\ down[w] \in Seq(DownLine)
        /\ client' = [client EXCEPT ![w] = client[w]] /\ client[w] \in ClientType
        /\ node' \in [height : Nat, pool : Nat, solo : Nat]
    BY <1>1, <1>7, Conversation
  <2>7. up' = [up EXCEPT ![w] = u]
    BY <1>2 DEF u
  <2> QED
    BY Zenon, <1>1, <1>4, <2>1, <2>2, <2>3, <2>4, <2>5, <2>6, <2>7, StepOfOne
<1> QED
  BY Zenon, <1>5, <1>6, <1>7 DEF Submit

LEMMA SubmitBlockNode ==
  ASSUME TypeOK, NEW height, NEW ok, SubmitBlock("pool", height, ok)
  PROVE  node' \in [height : Nat, pool : Nat, solo : Nat] /\ node'.solo = node.solo
<1>1. node \in [height : Nat, pool : Nat, solo : Nat]
  BY DEF TypeOK
<1>2. CASE Mined("pool")
  <2>1. node' = [node EXCEPT !.height = @ + 1, !["pool"] = @ + 1]
    BY <1>2 DEF Mined
  <2>2. /\ DOMAIN node' = {"height", "pool", "solo"} /\ node'.height = node.height + 1
        /\ node'.pool = node.pool + 1 /\ node'.solo = node.solo
    BY <1>1, <2>1
  <2>3. node' = [height |-> node.height + 1, pool |-> node.pool + 1, solo |-> node.solo]
    BY Zenon, <1>1, <2>1
  <2> QED
    BY <1>1, <2>2, <2>3
<1> QED
  BY <1>1, <1>2 DEF SubmitBlock

LEMMA SubmitShareBlockStep ==
  ASSUME IInv, NEW w \in Worker, SubmitShareBlock(w)
  PROVE  IInv'
<1>1. PICK ok \in BOOLEAN :
        /\ SubmitBlock("pool", session[w].height, ok)
        /\ down' = [down EXCEPT ![w] = Append(@, Response(session[w].id, ok))]
        /\ session' = [session EXCEPT ![w] = [at |-> IF ok THEN "push" ELSE "read",
                                              subscribed |-> TRUE, authorized |-> TRUE]]
        /\ refresh' = IF ok THEN [refresh EXCEPT ![w] = [at |-> "wanted"]] ELSE refresh
  BY Zenon DEF SubmitShareBlock
<1>2. session[w].at = "block" /\ UNCHANGED <<up, client, ledger, solo>>
  BY DEF SubmitShareBlock
<1> DEFINE answer == Response(session[w].id, ok)
           d == Append(down[w], answer)
           t == [at |-> IF ok THEN "push" ELSE "read",
                 subscribed |-> TRUE, authorized |-> TRUE]
           q == IF ok THEN [at |-> "wanted"] ELSE refresh[w]
<1>3. session[w].id \in Nat /\ refresh[w] \in RefreshType /\ refresh[w].at = "idle"
  <2>1. session[w] \in SessionType /\ refresh[w] \in RefreshType
    BY Conversation
  <2>2. Talks(up[w], down[w], client[w], session[w], refresh[w], ledger["solo"].credited[w])
    BY Conversation DEF PayoutScheme
  <2> QED
    BY <1>2, <2>1, <2>2 DEF SessionType, Talks
<1>4. answer \in DownLine /\ answer.type = "response" /\ answer.id = session[w].id
  BY <1>3, ResponseType
<1>5. d \in Seq(DownLine) /\ Lines(d) = Lines(down[w]) \cup {answer}
  <2>1. down[w] \in Seq(DownLine)
    BY Conversation
  <2> HIDE DEF answer
  <2> QED
    BY <1>4, <2>1, AppendLines
<1>6. t \in SessionType /\ t.at \in {"push", "read"} /\ (ok => t.at = "push")
  BY DEF SessionType
<1>7. q \in RefreshType /\ (q.at # "idle" => t.at = "push")
  <2>1. [at |-> "wanted"] \in RefreshType
    BY DEF RefreshType
  <2> HIDE DEF t
  <2>2. CASE ok
    BY <1>6, <2>1, <2>2
  <2>3. CASE ~ok
    BY <1>3, <2>3
  <2> QED
    BY <2>2, <2>3
<1>8. /\ down' = [down EXCEPT ![w] = d] /\ session' = [session EXCEPT ![w] = t]
      /\ refresh' = [refresh EXCEPT ![w] = q]
  BY Zenon, <1>1, Conversation
<1> HIDE DEF answer, d, t, q
<1>9. ASSUME NEW scheme \in PayoutScheme
      PROVE  Talks(up[w], d, client[w], t, q, ledger[scheme].credited[w])
  <2> DEFINE n == ledger[scheme].credited[w]
  <2>1. /\ n \in Nat /\ client[w].counted \in Nat
        /\ Talks(up[w], down[w], client[w], session[w], refresh[w], n)
    BY Conversation
  <2> HIDE DEF n
  <2>2. Accepted(d, t, client[w].id) => Accepted(down[w], session[w], client[w].id)
    BY <1>2, <1>4, <1>5, <1>6 DEF Accepted
  <2>3. Talks(up[w], d, client[w], t, q, n)
    BY <1>2, <1>4, <1>5, <1>6, <1>7, <2>1, <2>2 DEF Talks
  <2> QED
    BY <2>3 DEF n
<1>10. /\ up' = [up EXCEPT ![w] = up[w]] /\ up[w] \in Seq(UpLine)
       /\ client' = [client EXCEPT ![w] = client[w]] /\ client[w] \in ClientType
  BY <1>2, Conversation
<1>11. node' \in [height : Nat, pool : Nat, solo : Nat] /\ node'.solo = node.solo
  BY <1>1, SubmitBlockNode DEF IInv
<1>12. CreditsType' /\ CreditsGrow /\ ledger' = ledger /\ solo' = solo
  BY <1>2, SameLedger DEF IInv
<1> QED
  BY Zenon, <1>5, <1>6, <1>7, <1>8, <1>9, <1>10, <1>11, <1>12, StepOfOne

LEMMA SessionEndsStep ==
  ASSUME IInv, NEW w \in Worker, SessionEnds(w)
  PROVE  IInv'
<1> DEFINE u == <<>>
           t == NoSession
<1>1. /\ session[w].at = "read" /\ session' = [session EXCEPT ![w] = t]
      /\ up' = [up EXCEPT ![w] = u]
      /\ UNCHANGED <<node, refresh, down, client, ledger, solo>>
  BY DEF SessionEnds
<1>2. u \in Seq(UpLine) /\ Lines(u) = {} /\ t \in SessionType /\ t.at = "closed"
  BY DEF Lines, SessionType, NoSession
<1> HIDE DEF u, t
<1>3. ASSUME NEW scheme \in PayoutScheme
      PROVE  Talks(u, down[w], client[w], t, refresh[w], ledger[scheme].credited[w])
  <2>1. Talks(up[w], down[w], client[w], session[w], refresh[w],
              ledger[scheme].credited[w])
    BY Conversation
  <2> QED
    BY <1>1, <1>2, <2>1 DEF Talks, Accepted
<1>4. /\ down' = [down EXCEPT ![w] = down[w]] /\ down[w] \in Seq(DownLine)
      /\ client' = [client EXCEPT ![w] = client[w]] /\ client[w] \in ClientType
      /\ refresh' = [refresh EXCEPT ![w] = refresh[w]] /\ refresh[w] \in RefreshType
      /\ node' \in [height : Nat, pool : Nat, solo : Nat] /\ node'.solo = node.solo
  BY <1>1, Conversation
<1>5. CreditsType' /\ CreditsGrow /\ ledger' = ledger /\ solo' = solo
  BY <1>1, SameLedger DEF IInv
<1> QED
  BY Zenon, <1>1, <1>2, <1>3, <1>4, <1>5, StepOfOne

LEMMA DialStep ==
  ASSUME IInv, NEW w \in Worker, Dial(w)
  PROVE  IInv'
<1> DEFINE line == [type |-> "subscribe", id |-> 1]
           u == <<line>>
           d == <<>>
           t == [session[w] EXCEPT !.at = "read"]
           c == [at |-> "subscribing", id |-> 1, counted |-> client[w].counted]
<1>1. /\ session[w].at = "closed" /\ session' = [session EXCEPT ![w] = t]
      /\ up' = [up EXCEPT ![w] = u] /\ down' = [down EXCEPT ![w] = d]
      /\ client' = [client EXCEPT ![w] = c]
      /\ UNCHANGED <<node, refresh, ledger, solo>>
  BY Conversation DEF Dial
<1>2. line \in UpLine /\ line.id = 1
  BY DEF UpLine
<1>3. u \in Seq(UpLine) /\ Lines(u) = {line}
  <2> HIDE DEF line
  <2> QED
    BY <1>2 DEF Lines
<1>4. d \in Seq(DownLine) /\ Lines(d) = {}
  BY DEF Lines
<1>5. session[w] \in SessionType /\ client[w].counted \in Nat
  BY Conversation
<1>6. t \in SessionType /\ t.at = "read"
  BY Zenon, <1>1, <1>5 DEF SessionType
<1>7. c \in ClientType /\ c.at = "subscribing" /\ c.id = 1 /\ c.counted = client[w].counted
  BY <1>5 DEF ClientType
<1> HIDE DEF line, u, d, t, c
<1>8. ASSUME NEW scheme \in PayoutScheme
      PROVE  Talks(u, d, c, t, refresh[w], ledger[scheme].credited[w])
  <2>1. Talks(up[w], down[w], client[w], session[w], refresh[w],
              ledger[scheme].credited[w])
    BY Conversation
  <2> QED
    BY <1>1, <1>2, <1>3, <1>4, <1>6, <1>7, <2>1 DEF Talks
<1>9. /\ refresh' = [refresh EXCEPT ![w] = refresh[w]] /\ refresh[w] \in RefreshType
      /\ node' \in [height : Nat, pool : Nat, solo : Nat] /\ node'.solo = node.solo
  BY <1>1, Conversation
<1>10. CreditsType' /\ CreditsGrow /\ ledger' = ledger /\ solo' = solo
  BY <1>1, SameLedger DEF IInv
<1> QED
  BY Zenon, <1>1, <1>3, <1>4, <1>6, <1>7, <1>8, <1>9, <1>10, StepOfOne

(***************************************************************************)
(* A step of the client: it takes lines, moves on, and may write one with  *)
(* a new ID.                                                               *)
(***************************************************************************)
LEMMA ClientStep ==
  ASSUME IInv, NEW w \in Worker, NEW u \in Seq(UpLine), NEW d \in Seq(DownLine),
         NEW c \in ClientType,
         up' = [up EXCEPT ![w] = u], down' = [down EXCEPT ![w] = d],
         client' = [client EXCEPT ![w] = c],
         UNCHANGED <<node, refresh, session, ledger, solo>>,
         Lines(d) \subseteq Lines(down[w]),
         client[w].id <= c.id,
         \A line \in Lines(u) : line \in Lines(up[w]) \/ line.id = c.id,
         c.at = "submitting" =>
           /\ client[w].id < c.id
           /\ \A line \in Lines(u) : line.id = c.id => line.type = "submit",
         \A scheme \in PayoutScheme : c.counted <= ledger[scheme].credited[w]
  PROVE  IInv'
<1>1. ASSUME NEW scheme \in PayoutScheme
      PROVE  Talks(u, d, c, session[w], refresh[w], ledger[scheme].credited[w])
  <2>1. /\ Talks(up[w], down[w], client[w], session[w], refresh[w],
                 ledger[scheme].credited[w])
        /\ client[w].id \in Nat /\ c.id \in Nat
        /\ up[w] \in Seq(UpLine) /\ down[w] \in Seq(DownLine) /\ session[w] \in SessionType
    BY Conversation DEF ClientType
  <2>2. /\ \A line \in Lines(up[w]) : line.id \in Nat
        /\ \A line \in Lines(u) : line.id \in Nat
        /\ \A line \in Lines(down[w]) : line.type = "response" => line.id \in Nat
    <3>1. /\ Lines(up[w]) \subseteq UpLine /\ Lines(u) \subseteq UpLine
          /\ Lines(down[w]) \subseteq DownLine
      BY <2>1 DEF Lines
    <3>2. \A line \in UpLine : line.id \in Nat
      BY DEF UpLine
    <3>3. \A line \in DownLine : line.type = "response" => line.id \in Nat
      BY DEF DownLine
    <3> QED
      BY <3>1, <3>2, <3>3
  <2>3. session[w].at = "block" => session[w].id \in Nat
    BY <2>1 DEF SessionType
  <2>4. /\ \A line \in Lines(u) : line.id <= c.id
        /\ \A line \in Lines(d) : line.type = "response" => line.id <= c.id
        /\ session[w].at = "block" => session[w].id <= c.id
    BY <2>1, <2>2, <2>3 DEF Talks
  <2>5. c.at = "submitting" => ~Accepted(d, session[w], c.id)
    BY <2>1, <2>2, <2>3 DEF Talks, Accepted
  <2>6. refresh[w].at # "idle" => session[w].at = "push"
    BY <2>1 DEF Talks
  <2> QED
    BY <2>4, <2>5, <2>6 DEF Talks
<1>2. /\ refresh' = [refresh EXCEPT ![w] = refresh[w]] /\ refresh[w] \in RefreshType
      /\ session' = [session EXCEPT ![w] = session[w]] /\ session[w] \in SessionType
      /\ node' \in [height : Nat, pool : Nat, solo : Nat] /\ node'.solo = node.solo
  BY Conversation
<1>3. CreditsType' /\ CreditsGrow /\ ledger' = ledger
  BY SameLedger DEF IInv
<1> QED
  BY <1>1, <1>2, <1>3, StepOfOne

LEMMA CallIs ==
  ASSUME IInv, NEW w \in Worker, NEW line \in UpLine, NEW label \in {"authorizing", "submitting"},
         Call(w, line, label)
  PROVE  \E u \in Seq(UpLine) :
           /\ up' = [up EXCEPT ![w] = u]
           /\ \A x \in Lines(u) : x \in Lines(up[w]) \/ x = line
<1>1. CASE session[w].at = "closed"
  <2>1. up' = [up EXCEPT ![w] = up[w]] /\ up[w] \in Seq(UpLine)
    BY <1>1, Conversation DEF Call
  <2> QED
    BY <2>1
<1>2. CASE session[w].at # "closed"
  <2> DEFINE u == Append(up[w], line)
  <2>1. up[w] \in Seq(UpLine)
    BY Conversation
  <2>2. up' = [up EXCEPT ![w] = u]
    BY <1>2, Conversation DEF Call
  <2>3. u \in Seq(UpLine) /\ Lines(u) = Lines(up[w]) \cup {line}
    BY <2>1, AppendLines
  <2> HIDE DEF u
  <2> QED
    BY <2>2, <2>3
<1> QED
  BY <1>1, <1>2

LEMMA MineShareStep ==
  ASSUME IInv, NEW w \in Worker, NEW kind \in {"valid", "block"}, MineShare(w, kind)
  PROVE  IInv'
<1> DEFINE line == [type |-> "submit", id |-> NextID(w), job |-> client[w].job, kind |-> kind]
           c == [at |-> "submitting", id |-> client[w].id + 1, counted |-> client[w].counted]
<1>1. /\ client[w].at = "mine" /\ Call(w, line, "submitting")
      /\ UNCHANGED <<node, refresh, session, down, ledger, solo>>
  BY DEF MineShare, ClientAt
<1>2. client' = [client EXCEPT ![w] = c]
  BY <1>1 DEF Call, NextID
<1>3. client[w] \in ClientType /\ client[w].id \in Nat /\ client[w].counted \in Nat
  BY Conversation
<1>4. client[w].job \in JobType
  BY <1>1, <1>3 DEF ClientType
<1>5. line \in UpLine /\ line.id = client[w].id + 1 /\ line.type = "submit"
  BY <1>3, <1>4 DEF UpLine, NextID
<1>6. /\ c \in ClientType /\ c.at = "submitting" /\ c.id = client[w].id + 1
      /\ c.counted = client[w].counted
  BY <1>3 DEF ClientType
<1> HIDE DEF line, c
<1>7. PICK u \in Seq(UpLine) :
        /\ up' = [up EXCEPT ![w] = u]
        /\ \A x \in Lines(u) : x \in Lines(up[w]) \/ x = line
  BY <1>1, <1>5, CallIs
<1>8. /\ down' = [down EXCEPT ![w] = down[w]] /\ down[w] \in Seq(DownLine)
      /\ Lines(down[w]) \subseteq Lines(down[w])
  BY <1>1, Conversation
<1>9. ASSUME NEW scheme \in PayoutScheme
      PROVE  /\ \A x \in Lines(up[w]) : x.id <= client[w].id
             /\ client[w].counted <= ledger[scheme].credited[w]
  BY Conversation DEF Talks
<1>10. \A x \in Lines(u) : x.id = c.id => x.type = "submit"
  <2> SUFFICES ASSUME NEW x \in Lines(u), x.id = client[w].id + 1, x \in Lines(up[w])
               PROVE  FALSE
    BY <1>5, <1>6, <1>7
  <2>1. x.id <= client[w].id
    BY <1>9 DEF PayoutScheme
  <2> QED
    BY <1>3, <2>1
<1>11. client[w].id <= c.id /\ client[w].id < c.id
  BY <1>3, <1>6
<1>12. \A x \in Lines(u) : x \in Lines(up[w]) \/ x.id = c.id
  BY <1>5, <1>6, <1>7
<1> QED
  BY <1>1, <1>2, <1>6, <1>7, <1>8, <1>9, <1>10, <1>11, <1>12, ClientStep

LEMMA NextJobStep ==
  ASSUME IInv, NEW w \in Worker, NextJob(w)
  PROVE  IInv'
<1> DEFINE d == Tail(down[w])
           line == Head(down[w])
           c == IF line.type # "notify" THEN client[w]
                ELSE [at |-> "mine", id |-> client[w].id, counted |-> client[w].counted,
                      job |-> line.job]
<1>1. /\ client[w].at = "wait" /\ down[w] # <<>> /\ down' = [down EXCEPT ![w] = d]
      /\ UNCHANGED <<node, refresh, session, up, ledger, solo>>
  BY Conversation DEF NextJob, ClientAt
<1>2. client' = [client EXCEPT ![w] = c]
  BY Zenon, Conversation DEF NextJob
<1>3. /\ client[w] \in ClientType /\ client[w].id \in Nat /\ client[w].counted \in Nat
      /\ down[w] \in Seq(DownLine)
  BY Conversation
<1>4. line \in DownLine /\ d \in Seq(DownLine) /\ Lines(d) \subseteq Lines(down[w])
  BY <1>1, <1>3, TailLines
<1>5. line.type = "notify" => line.job \in JobType
  BY <1>4 DEF DownLine
<1>6. /\ c \in ClientType /\ c.at # "submitting" /\ c.id = client[w].id
      /\ c.counted = client[w].counted
  BY <1>1, <1>3, <1>5 DEF ClientType
<1> HIDE DEF d, c
<1>7. up' = [up EXCEPT ![w] = up[w]] /\ up[w] \in Seq(UpLine)
  BY <1>1, Conversation
<1>8. ASSUME NEW scheme \in PayoutScheme
      PROVE  c.counted <= ledger[scheme].credited[w]
  BY <1>6, Conversation DEF Talks
<1>9. client[w].id <= c.id /\ \A x \in Lines(up[w]) : x \in Lines(up[w]) \/ x.id = c.id
  BY <1>3, <1>6
<1> QED
  BY <1>1, <1>2, <1>4, <1>6, <1>7, <1>8, <1>9, ClientStep

LEMMA CallFailsStep ==
  ASSUME IInv, NEW w \in Worker, CallFails(w)
  PROVE  IInv'
<1> DEFINE label == IF client[w].at = "submitting" THEN "wait" ELSE "start"
           c == [client[w] EXCEPT !.at = label]
<1>1. /\ Waiting(w) /\ client' = [client EXCEPT ![w] = c]
      /\ UNCHANGED <<node, refresh, session, up, ledger, solo>>
  BY Conversation DEF CallFails, ClientAt
<1>2. PICK n \in 0 .. Len(down[w]) : down' = Rest(w, n)
  BY DEF CallFails
<1> DEFINE d == SubSeq(down[w], n + 1, Len(down[w]))
<1>3. down' = [down EXCEPT ![w] = d]
  BY <1>2, Conversation DEF Rest
<1>4. /\ client[w] \in ClientType /\ client[w].id \in Nat /\ client[w].counted \in Nat
      /\ down[w] \in Seq(DownLine)
  BY Conversation
<1>5. d \in Seq(DownLine) /\ Lines(d) \subseteq Lines(down[w])
  BY <1>2, <1>4, RestLines
<1>6. /\ c \in ClientType /\ c.at # "submitting" /\ c.id = client[w].id
      /\ c.counted = client[w].counted
  BY <1>1, <1>4 DEF ClientType, Waiting
<1> HIDE DEF d, c
<1>7. up' = [up EXCEPT ![w] = up[w]] /\ up[w] \in Seq(UpLine)
  BY <1>1, Conversation
<1>8. ASSUME NEW scheme \in PayoutScheme
      PROVE  c.counted <= ledger[scheme].credited[w]
  BY <1>6, Conversation DEF Talks
<1>9. client[w].id <= c.id /\ \A x \in Lines(up[w]) : x \in Lines(up[w]) \/ x.id = c.id
  BY <1>4, <1>6
<1> QED
  BY <1>1, <1>3, <1>5, <1>6, <1>7, <1>8, <1>9, ClientStep

LEMMA ReturnedIs ==
  ASSUME NEW f \in [at : {"submitting"}, id : Nat, counted : Nat], NEW n
  PROVE  [f EXCEPT !.at = "wait", !.counted = n] = [at |-> "wait", id |-> f.id, counted |-> n]
<1> DEFINE F == {"at", "id", "counted"}
           g == [f EXCEPT !.at = "wait", !.counted = n]
           h == [at |-> "wait", id |-> f.id, counted |-> n]
<1>1. f = [x \in F |-> f[x]]
  OBVIOUS
<1>2. DOMAIN g = F /\ g = [x \in F |-> g[x]]
  BY Zenon, <1>1
<1>3. g.at = "wait" /\ g.id = f.id /\ g.counted = n
  BY <1>1
<1>4. DOMAIN h = F /\ h = [x \in F |-> h[x]]
  OBVIOUS
<1>5. h.at = "wait" /\ h.id = f.id /\ h.counted = n
  OBVIOUS
<1> HIDE DEF g, h
<1>6. g = h
  BY <1>2, <1>3, <1>4, <1>5
<1> QED
  BY <1>6 DEF g, h

\* The answer to a submission that says accepted has its credit.
LEMMA ReturnStep ==
  ASSUME IInv, NEW w \in Worker, Return(w)
  PROVE  IInv'
<1>1. UNCHANGED <<node, refresh, session, ledger, solo>>
  BY DEF Return
<1>2. PICK i \in DOMAIN down[w] :
        /\ Answers(w, i)
        /\ down' = Rest(w, i)
        /\ \/ /\ ClientAt(w, "subscribing")
              /\ Call(w, [type |-> "authorize", id |-> NextID(w)], "authorizing")
           \/ /\ ClientAt(w, "authorizing")
              /\ client' = [client EXCEPT ![w].at = "wait"]
              /\ UNCHANGED up
           \/ /\ ClientAt(w, "submitting")
              /\ client' = [client EXCEPT ![w].at = "wait",
                                          ![w].counted = @ + IF down[w][i].ok THEN 1 ELSE 0]
              /\ UNCHANGED up
  BY DEF Return
<1> DEFINE d == SubSeq(down[w], i + 1, Len(down[w]))
<1>3. down' = [down EXCEPT ![w] = d]
  BY <1>2, Conversation DEF Rest
<1>4. /\ client[w] \in ClientType /\ client[w].id \in Nat /\ client[w].counted \in Nat
      /\ down[w] \in Seq(DownLine) /\ up[w] \in Seq(UpLine)
      /\ up = [up EXCEPT ![w] = up[w]]
  BY Conversation
<1>5. d \in Seq(DownLine) /\ Lines(d) \subseteq Lines(down[w])
  <2>1. i \in 0 .. Len(down[w])
    BY <1>4
  <2> QED
    BY <1>4, <2>1, RestLines
<1> HIDE DEF d
<1>6. CASE ClientAt(w, "subscribing")
  <2> DEFINE line == [type |-> "authorize", id |-> NextID(w)]
             c == [at |-> "authorizing", id |-> client[w].id + 1,
                   counted |-> client[w].counted]
  <2>1. Call(w, line, "authorizing")
    BY <1>2, <1>6 DEF ClientAt
  <2>2. client' = [client EXCEPT ![w] = c]
    BY <2>1 DEF Call, NextID
  <2>3. line \in UpLine /\ line.id = client[w].id + 1
    BY <1>4 DEF UpLine, NextID
  <2>4. /\ c \in ClientType /\ c.at # "submitting" /\ c.id = client[w].id + 1
        /\ c.counted = client[w].counted
    BY <1>4 DEF ClientType
  <2> HIDE DEF line, c
  <2>5. PICK u \in Seq(UpLine) :
          /\ up' = [up EXCEPT ![w] = u]
          /\ \A x \in Lines(u) : x \in Lines(up[w]) \/ x = line
    BY <2>1, <2>3, CallIs
  <2>6. ASSUME NEW scheme \in PayoutScheme
        PROVE  c.counted <= ledger[scheme].credited[w]
    BY <2>4, Conversation DEF Talks
  <2>7. client[w].id <= c.id /\ \A x \in Lines(u) : x \in Lines(up[w]) \/ x.id = c.id
    BY <1>4, <2>3, <2>4, <2>5
  <2> QED
    BY <1>1, <1>3, <1>5, <2>2, <2>4, <2>5, <2>6, <2>7, ClientStep
<1>7. CASE ClientAt(w, "authorizing")
  <2> DEFINE c == [client[w] EXCEPT !.at = "wait"]
  <2>1. client' = [client EXCEPT ![w] = c] /\ up' = [up EXCEPT ![w] = up[w]]
    BY <1>2, <1>4, <1>7, Conversation DEF ClientAt
  <2>2. /\ c \in ClientType /\ c.at # "submitting" /\ c.id = client[w].id
        /\ c.counted = client[w].counted
    BY <1>4, <1>7 DEF ClientType, ClientAt
  <2> HIDE DEF c
  <2>3. ASSUME NEW scheme \in PayoutScheme
        PROVE  c.counted <= ledger[scheme].credited[w]
    BY <2>2, Conversation DEF Talks
  <2>4. client[w].id <= c.id /\ \A x \in Lines(up[w]) : x \in Lines(up[w]) \/ x.id = c.id
    BY <1>4, <2>2
  <2> QED
    BY <1>1, <1>3, <1>4, <1>5, <2>1, <2>2, <2>3, <2>4, ClientStep
<1>8. CASE ClientAt(w, "submitting")
  <2> DEFINE more == IF down[w][i].ok THEN 1 ELSE 0
             c == [at |-> "wait", id |-> client[w].id, counted |-> client[w].counted + more]
  <2>1. more \in Nat /\ (down[w][i].ok \/ more = 0) /\ more <= 1
    OBVIOUS
  <2>2. client[w] \in [at : {"submitting"}, id : Nat, counted : Nat]
    BY <1>4, <1>8 DEF ClientType, ClientAt
  <2> HIDE DEF more
  <2>3. c = [client[w] EXCEPT !.at = "wait", !.counted = @ + more]
    BY <2>2, ReturnedIs
  <2>4. client' = [client EXCEPT ![w] = c] /\ up' = [up EXCEPT ![w] = up[w]]
    <3>1. /\ client' = [client EXCEPT ![w].at = "wait", ![w].counted = @ + more]
          /\ up' = up
      BY <1>2, <1>8 DEF ClientAt, more
    <3>2. client' = [client EXCEPT ![w] = [client[w] EXCEPT !.at = "wait", !.counted = @ + more]]
      BY Zenon, <3>1, Conversation
    <3> QED
      BY Zenon, <1>4, <2>3, <3>1, <3>2
  <2>5. /\ c \in ClientType /\ c.at # "submitting" /\ c.id = client[w].id
        /\ c.counted = client[w].counted + more
    BY <1>4, <2>1 DEF ClientType
  <2> HIDE DEF c
  <2>6. ASSUME NEW scheme \in PayoutScheme
        PROVE  c.counted <= ledger[scheme].credited[w]
    <3> DEFINE n == ledger[scheme].credited[w]
    <3>1. n \in Nat /\ Talks(up[w], down[w], client[w], session[w], refresh[w], n)
      BY Conversation
    <3> HIDE DEF n
    <3>2. CASE more = 0
      BY <1>4, <2>5, <3>1, <3>2 DEF Talks, n
    <3>3. CASE down[w][i].ok
      <4>1. down[w][i] \in Lines(down[w])
        BY <1>2 DEF Lines
      <4>2. Accepted(down[w], session[w], client[w].id)
        BY <1>2, <3>3, <4>1 DEF Accepted, Answers
      <4>3. client[w].counted < n
        BY <1>8, <3>1, <4>2 DEF Talks, ClientAt
      <4> QED
        BY <1>4, <2>1, <2>5, <3>1, <4>3 DEF n
    <3> QED
      BY <2>1, <3>2, <3>3 DEF n
  <2>7. client[w].id <= c.id /\ \A x \in Lines(up[w]) : x \in Lines(up[w]) \/ x.id = c.id
    BY <1>4, <2>5
  <2> QED
    BY <1>1, <1>3, <1>4, <1>5, <2>4, <2>5, <2>6, <2>7, ClientStep
<1> QED
  BY <1>2, <1>6, <1>7, <1>8

-----------------------------------------------------------------------------
(***************************************************************************)
(* The refreshes, of the ticker and of the sessions.                       *)
(***************************************************************************)

\* Nothing of a worker changes when only the ticker moves.
LEMMA TickerStep ==
  ASSUME IInv, NEW r \in RefreshType, refresh' = [refresh EXCEPT ![Ticker] = r],
         UNCHANGED <<node, workers, ledger, solo>>
  PROVE  IInv'
<1>1. /\ TypeOK /\ CreditsType /\ (\A w \in Worker : Talk(w)) /\ SoloInv
      /\ node' = node /\ session' = session /\ up' = up /\ down' = down
      /\ client' = client /\ ledger' = ledger /\ solo' = solo
  BY DEF IInv, workers
<1>2. Ticker \notin Worker
  BY MiningPoolAssumption
<1>3. \A w \in Worker : refresh'[w] = refresh[w]
  BY <1>1, <1>2 DEF TypeOK, Refresher
<1>4. TypeOK'
  BY <1>1 DEF TypeOK, Refresher
<1>5. (\A w \in Worker : Talk(w))' /\ CreditsType' /\ SoloInv'
  BY Zenon, <1>1, <1>3 DEF Talk, CreditsType, SoloInv
<1> QED
  BY <1>4, <1>5 DEF IInv

\* A session that pushes a job goes on with it, or reads on.
LEMMA PushStep ==
  ASSUME IInv, NEW w \in Worker, refresh[w].at # "idle",
         NEW r \in RefreshType, refresh' = [refresh EXCEPT ![w] = r],
         NEW s \in SessionType, session' = [session EXCEPT ![w] = s],
         \/ r.at # "idle" /\ s.at = "push"
         \/ r.at = "idle" /\ s.at = "read",
         UNCHANGED <<node, up, down, client, ledger, solo>>
  PROVE  IInv'
<1>1. ASSUME NEW scheme \in PayoutScheme
      PROVE  Talks(up[w], down[w], client[w], s, r, ledger[scheme].credited[w])
  <2>1. Talks(up[w], down[w], client[w], session[w], refresh[w],
              ledger[scheme].credited[w])
    BY Conversation
  <2> QED
    BY <2>1 DEF Talks, Accepted
<1>2. /\ up' = [up EXCEPT ![w] = up[w]] /\ up[w] \in Seq(UpLine)
      /\ down' = [down EXCEPT ![w] = down[w]] /\ down[w] \in Seq(DownLine)
      /\ client' = [client EXCEPT ![w] = client[w]] /\ client[w] \in ClientType
      /\ node' \in [height : Nat, pool : Nat, solo : Nat] /\ node'.solo = node.solo
  BY Conversation
<1>3. CreditsType' /\ CreditsGrow /\ ledger' = ledger /\ solo' = solo
  BY SameLedger DEF IInv
<1> QED
  BY Zenon, <1>1, <1>2, <1>3, StepOfOne

\* The session is in pushJob while its refresh is not over.
LEMMA Pushes ==
  ASSUME IInv, NEW w \in Worker, refresh[w].at # "idle"
  PROVE  /\ session[w] \in SessionType /\ session[w].at = "push"
         /\ session = [session EXCEPT ![w] = session[w]]
         /\ [session[w] EXCEPT !.at = "read"] \in SessionType
         /\ [session[w] EXCEPT !.at = "read"].at = "read"
         /\ [session EXCEPT ![w].at = "read"]
              = [session EXCEPT ![w] = [session[w] EXCEPT !.at = "read"]]
<1>1. session[w] \in SessionType /\ session = [session EXCEPT ![w] = session[w]]
  BY Conversation
<1>2. session[w].at = "push"
  BY Conversation DEF Talks, PayoutScheme
<1>3. /\ [session[w] EXCEPT !.at = "read"] \in SessionType
      /\ [session[w] EXCEPT !.at = "read"].at = "read"
  BY Zenon, <1>1, <1>2 DEF SessionType
<1> QED
  BY <1>1, <1>2, <1>3

LEMMA FetchStep ==
  ASSUME IInv, NEW r \in Refresher, Fetch(r) \/ handleMiningWork(r)
  PROVE  IInv'
<1>1. refresh[r] \in RefreshType /\ node.height \in Nat
  BY DEF IInv, TypeOK
<1>2. \E t \in RefreshType : t.at # "idle" /\ refresh' = [refresh EXCEPT ![r] = t]
  <2>1. CASE Fetch(r)
    <3> DEFINE t == [at |-> "candidate", height |-> node.height + 1]
    <3>1. t \in RefreshType /\ t.at # "idle"
      BY <1>1 DEF RefreshType
    <3> QED
      BY Zenon, <2>1, <3>1 DEF Fetch
  <2>2. CASE handleMiningWork(r)
    <3> DEFINE t == [at |-> "work", height |-> refresh[r].height, parent |-> node.height]
    <3>1. refresh[r].height \in Nat
      BY <1>1, <2>2 DEF RefreshType, handleMiningWork
    <3>2. t \in RefreshType /\ t.at # "idle"
      BY <1>1, <3>1 DEF RefreshType
    <3> QED
      BY Zenon, <2>2, <3>2 DEF handleMiningWork
  <2> QED
    BY <2>1, <2>2
<1>3. PICK t \in RefreshType : t.at # "idle" /\ refresh' = [refresh EXCEPT ![r] = t]
  BY Zenon, <1>2
<1>4. UNCHANGED <<node, workers, ledger, solo>>
  BY DEF Fetch, handleMiningWork
<1>5. CASE r = Ticker
  BY Zenon, <1>3, <1>4, <1>5, TickerStep
<1>6. CASE r # Ticker
  <2>1. r \in Worker /\ refresh[r].at # "idle"
    BY <1>6 DEF Refresher, Fetch, handleMiningWork
  <2>2. /\ session' = session /\ up' = up /\ down' = down /\ client' = client
        /\ node' = node /\ ledger' = ledger /\ solo' = solo
    BY <1>4 DEF workers
  <2>3. /\ session[r] \in SessionType /\ session[r].at = "push"
        /\ session' = [session EXCEPT ![r] = session[r]]
    BY Zenon, <2>1, <2>2, Pushes
  <2> QED
    BY Zenon, <1>3, <2>1, <2>2, <2>3, PushStep
<1> QED
  BY <1>5, <1>6

LEMMA FetchFailsStep ==
  ASSUME IInv, NEW r \in Refresher, FetchFails(r)
  PROVE  IInv'
<1>1. NoWork \in RefreshType /\ NoWork.at = "idle"
  BY DEF RefreshType, NoWork
<1>2. /\ refresh[r].at = "candidate" /\ refresh' = [refresh EXCEPT ![r] = NoWork]
      /\ session' = IF r = Ticker THEN session ELSE [session EXCEPT ![r].at = "read"]
      /\ UNCHANGED <<node, up, down, client, ledger, solo>>
  BY DEF FetchFails
<1>3. CASE r = Ticker
  <2>1. UNCHANGED <<node, workers, ledger, solo>>
    BY <1>2, <1>3 DEF workers
  <2> QED
    BY Zenon, <1>1, <1>2, <1>3, <2>1, TickerStep
<1>4. CASE r # Ticker
  <2> DEFINE s == [session[r] EXCEPT !.at = "read"]
  <2>1. r \in Worker /\ refresh[r].at # "idle"
    BY <1>2, <1>4 DEF Refresher
  <2>2. s \in SessionType /\ s.at = "read" /\ session' = [session EXCEPT ![r] = s]
    BY <1>2, <1>4, <2>1, Pushes
  <2> HIDE DEF s
  <2> QED
    BY Zenon, <1>1, <1>2, <2>1, <2>2, PushStep
<1> QED
  BY <1>3, <1>4

\* Staling the jobs that lines and a worker name changes nothing in what they
\* have to agree on.
LEMMA StaledTalk ==
  ASSUME NEW u \in Seq(UpLine), NEW d \in Seq(DownLine), NEW c \in ClientType,
         NEW s, NEW r, NEW n, Talks(u, d, c, s, r, n),
         NEW v \in Seq(UpLine), Lines(v) = {Stale(x) : x \in Lines(u)},
         NEW e \in Seq(DownLine),
         \A x \in Lines(e) : x.type = "response" => x \in Lines(d),
         NEW b, b.at = c.at, b.id = c.id, b.counted = c.counted
  PROVE  Talks(v, e, b, s, r, n)
<1>1. Lines(u) \subseteq UpLine
  BY DEF Lines
<1>2. ASSUME NEW x \in Lines(v)
      PROVE  \E y \in Lines(u) : x.id = y.id /\ x.type = y.type
  BY <1>1, StaleIs
<1>3. /\ \A x \in Lines(v) : x.id <= b.id
      /\ b.at = "submitting" => \A x \in Lines(v) : x.id = b.id => x.type = "submit"
  BY <1>2 DEF Talks
<1>4. \A x \in Lines(e) : x.type = "response" => x.id <= b.id
  BY DEF Talks
<1>5. Accepted(e, s, b.id) => Accepted(d, s, c.id)
  BY DEF Accepted
<1> QED
  BY <1>3, <1>4, <1>5 DEF Talks

LEMMA InstallStep ==
  ASSUME IInv, NEW r \in Refresher, Install(r)
  PROVE  IInv'
<1> DEFINE job == Job(refresh[r])
           note == Notify(job)
           oldUp == Staled(up)
           oldDown == Staled(down)
<1>1. /\ TypeOK /\ CreditsType /\ SoloInv
      /\ refresh[r].at = "work" /\ refresh' = [refresh EXCEPT ![r] = NoWork]
      /\ up' = oldUp
      /\ down' = IF r = Ticker THEN oldDown
                 ELSE [oldDown EXCEPT ![r] = Append(oldDown[r], note)]
      /\ client' = [w \in Worker |-> IF client[w].at = "mine"
                                     THEN [client[w] EXCEPT !.job.live = FALSE]
                                     ELSE client[w]]
      /\ session' = IF r = Ticker THEN session ELSE [session EXCEPT ![r].at = "read"]
      /\ UNCHANGED <<node, ledger, solo>>
  BY DEF Install, IInv
<1>2. NoWork \in RefreshType /\ NoWork.at = "idle"
  BY DEF RefreshType, NoWork
<1>3. note \in DownLine /\ note.type = "notify"
  <2>1. refresh[r] \in RefreshType
    BY <1>1 DEF TypeOK
  <2>2. job \in JobType
    BY <1>1, <2>1 DEF RefreshType, Job, JobType
  <2> HIDE DEF job
  <2> QED
    BY <2>2 DEF Notify, DownLine
<1> HIDE DEF job, note
<1>4. ASSUME NEW w \in Worker
      PROVE  /\ oldUp[w] \in Seq(UpLine) /\ Lines(oldUp[w]) = {Stale(x) : x \in Lines(up[w])}
             /\ oldDown[w] \in Seq(DownLine)
             /\ Lines(oldDown[w]) = {Stale(x) : x \in Lines(down[w])}
  <2>1. up[w] \in Seq(UpLine) /\ down[w] \in Seq(DownLine)
    BY Conversation
  <2>2. /\ oldUp[w] = [i \in DOMAIN up[w] |-> Stale(up[w][i])]
        /\ oldDown[w] = [i \in DOMAIN down[w] |-> Stale(down[w][i])]
    BY DEF Staled
  <2>3. \A x \in UpLine : Stale(x) \in UpLine
    BY StaleIs
  <2>4. \A x \in DownLine : Stale(x) \in DownLine
    BY StaleIs
  <2>5. /\ [i \in DOMAIN up[w] |-> Stale(up[w][i])] \in Seq(UpLine)
        /\ Lines([i \in DOMAIN up[w] |-> Stale(up[w][i])]) = {Stale(x) : x \in Lines(up[w])}
    BY Zenon, <2>1, <2>3, StaleLines
  <2>6. /\ [i \in DOMAIN down[w] |-> Stale(down[w][i])] \in Seq(DownLine)
        /\ Lines([i \in DOMAIN down[w] |-> Stale(down[w][i])])
             = {Stale(x) : x \in Lines(down[w])}
    BY <2>1, <2>4, StaleLines
  <2> QED
    BY <2>2, <2>5, <2>6
<1>5. oldUp = [w \in Worker |-> oldUp[w]] /\ oldDown = [w \in Worker |-> oldDown[w]]
  BY DEF Staled
<1> HIDE DEF oldUp, oldDown
<1>6. ASSUME NEW w \in Worker
      PROVE  /\ down'[w] \in Seq(DownLine)
             /\ \A x \in Lines(down'[w]) : x.type = "response" => x \in Lines(down[w])
  <2>1. Lines(down[w]) \subseteq DownLine
    <3>1. down[w] \in Seq(DownLine)
      BY Conversation
    <3> QED
      BY <3>1 DEF Lines
  <2>2. \A x \in Lines(oldDown[w]) : x.type = "response" => x \in Lines(down[w])
    <3> SUFFICES ASSUME NEW x \in Lines(oldDown[w]), x.type = "response"
                 PROVE  x \in Lines(down[w])
      OBVIOUS
    <3>1. PICK y \in Lines(down[w]) : x = Stale(y)
      BY Zenon, <1>4
    <3>2. y \in DownLine
      BY <2>1
    <3> QED
      BY <3>1, <3>2, StaleIs
  <2>3. CASE r = Ticker \/ w # r
    <3>1. down'[w] = oldDown[w]
      BY <1>1, <1>5, <2>3
    <3> QED
      BY <1>4, <2>2, <3>1
  <2>4. CASE r # Ticker /\ w = r
    <3>1. down'[w] = Append(oldDown[w], note)
      BY <1>1, <1>5, <2>4
    <3>2. /\ Append(oldDown[w], note) \in Seq(DownLine)
          /\ Lines(Append(oldDown[w], note)) = Lines(oldDown[w]) \cup {note}
      BY <1>3, <1>4, AppendLines
    <3> QED
      BY <1>3, <2>2, <3>1, <3>2
  <2> QED
    BY <2>3, <2>4
<1>7. ASSUME NEW w \in Worker
      PROVE  /\ client'[w] \in ClientType /\ client'[w].at = client[w].at
             /\ client'[w].id = client[w].id /\ client'[w].counted = client[w].counted
  <2>1. client[w] \in ClientType
    BY Conversation
  <2>2. client'[w] = IF client[w].at = "mine" THEN [client[w] EXCEPT !.job.live = FALSE]
                     ELSE client[w]
    BY <1>1
  <2>3. CASE client[w].at # "mine"
    BY <2>1, <2>2, <2>3
  <2>4. CASE client[w].at = "mine"
    <3> DEFINE c == client[w]
               b == [c EXCEPT !.job.live = FALSE]
    <3>1. c \in [at : {"mine"}, id : Nat, counted : Nat, job : JobType]
      BY <2>1, <2>4 DEF ClientType
    <3> HIDE DEF c
    <3>2. c.job \in JobType /\ [c.job EXCEPT !.live = FALSE] \in JobType
      BY Zenon, <3>1 DEF JobType
    <3>3. /\ b \in [at : {"mine"}, id : Nat, counted : Nat, job : JobType]
          /\ b.at = c.at /\ b.id = c.id /\ b.counted = c.counted
      BY Zenon, <3>1, <3>2
    <3> QED
      BY <2>2, <2>4, <3>3 DEF ClientType, c
  <2> QED
    BY <2>3, <2>4
<1>8. ASSUME NEW w \in Worker
      PROVE  /\ session'[w] \in SessionType
             /\ session'[w] = session[w] \/ (session[w].at = "push" /\ session'[w].at = "read")
             /\ refresh'[w].at # "idle" => /\ session'[w] = session[w]
                                           /\ refresh'[w] = refresh[w]
  <2>1. session[w] \in SessionType
    BY Conversation
  <2>2. CASE r = Ticker \/ w # r
    <3>1. session'[w] = session[w]
      BY <1>1, <2>2 DEF TypeOK
    <3>2. refresh'[w] = refresh[w]
      BY <1>1, <2>2, MiningPoolAssumption DEF TypeOK, Refresher
    <3> QED
      BY <2>1, <3>1, <3>2
  <2>3. CASE r # Ticker /\ w = r
    <3>1. refresh'[w] = NoWork
      BY <1>1, <2>3 DEF TypeOK
    <3>2. /\ session[w].at = "push" /\ [session[w] EXCEPT !.at = "read"] \in SessionType
          /\ [session[w] EXCEPT !.at = "read"].at = "read"
      BY Zenon, <1>1, <2>3, Pushes
    <3>3. session'[w] = [session[w] EXCEPT !.at = "read"]
      BY <1>1, <2>3 DEF TypeOK
    <3> QED
      BY <1>2, <3>1, <3>2, <3>3
  <2> QED
    BY <2>2, <2>3
<1>9. TypeOK'
  <2>1. /\ up' = [w \in Worker |-> up'[w]] /\ down' = [w \in Worker |-> down'[w]]
        /\ client' = [w \in Worker |-> client'[w]]
        /\ session' = [w \in Worker |-> session'[w]]
    BY Zenon, <1>1, <1>5 DEF TypeOK
  <2>2. refresh' \in [Refresher -> RefreshType]
    BY <1>1, <1>2 DEF TypeOK
  <2>3. /\ up' \in [Worker -> Seq(UpLine)] /\ down' \in [Worker -> Seq(DownLine)]
        /\ client' \in [Worker -> ClientType] /\ session' \in [Worker -> SessionType]
    BY Zenon, <1>1, <1>4, <1>6, <1>7, <1>8, <2>1
  <2> QED
    BY Zenon, <1>1, <2>2, <2>3 DEF TypeOK
<1>10. ASSUME NEW w \in Worker PROVE Talk(w)'
  <2> SUFFICES ASSUME NEW scheme \in PayoutScheme
               PROVE  Talks(up'[w], down'[w], client'[w], session'[w], refresh'[w],
                            ledger[scheme].credited[w])
    BY Zenon, <1>1 DEF Talk
  <2> DEFINE n == ledger[scheme].credited[w]
             u == up[w]
             d == down[w]
             c == client[w]
             s == session[w]
             v == up'[w]
             e == down'[w]
             b == client'[w]
             t == session'[w]
             q == refresh'[w]
  <2>1. /\ Talks(u, d, c, s, refresh[w], n)
        /\ u \in Seq(UpLine) /\ d \in Seq(DownLine) /\ c \in ClientType
    BY Conversation
  <2>2. /\ v \in Seq(UpLine) /\ Lines(v) = {Stale(x) : x \in Lines(u)}
        /\ e \in Seq(DownLine)
        /\ \A x \in Lines(e) : x.type = "response" => x \in Lines(d)
        /\ b.at = c.at /\ b.id = c.id /\ b.counted = c.counted
    BY Zenon, <1>1, <1>4, <1>6, <1>7
  <2>3. /\ t = s \/ (s.at = "push" /\ t.at = "read")
        /\ q.at # "idle" => t = s /\ q = refresh[w]
    BY <1>8
  <2> HIDE DEF n, u, d, c, s, v, e, b, t, q
  <2>4. Talks(v, e, b, s, refresh[w], n)
    BY Zenon, <2>1, <2>2, StaledTalk
  <2>5. Talks(v, e, b, t, q, n)
    BY <2>3, <2>4 DEF Talks, Accepted
  <2> QED
    BY <2>5 DEF n, v, e, b, t, q
<1>11. CreditsType' /\ SoloInv'
  BY <1>1, SameLedger DEF SoloInv
<1> QED
  BY <1>9, <1>10, <1>11 DEF IInv

-----------------------------------------------------------------------------
(***************************************************************************)
(* The other workers and the solo miner: no conversation changes.          *)
(***************************************************************************)
LEMMA RestStep ==
  ASSUME IInv, UNCHANGED <<refresh, workers>>,
         node' \in [height : Nat, pool : Nat, solo : Nat],
         CreditsType', CreditsGrow, SoloInv'
  PROVE  IInv'
<1>1. /\ TypeOK /\ CreditsType /\ refresh' = refresh /\ session' = session /\ up' = up
      /\ down' = down /\ client' = client
  BY DEF IInv, workers
<1>2. TypeOK'
  BY <1>1 DEF TypeOK
<1>3. ASSUME NEW w \in Worker PROVE Talk(w)'
  <2> SUFFICES ASSUME NEW scheme \in PayoutScheme
               PROVE  Talks(up[w], down[w], client[w], session[w], refresh[w],
                            ledger'[scheme].credited[w])
    BY <1>1 DEF Talk
  <2> DEFINE n == ledger[scheme].credited[w]
             m == ledger'[scheme].credited[w]
  <2>1. n \in Nat /\ m \in Nat /\ n <= m
    BY <1>1 DEF CreditsType, CreditsGrow
  <2>2. Talks(up[w], down[w], client[w], session[w], refresh[w], n)
    BY Conversation
  <2>3. client[w].counted \in Nat
    BY Conversation
  <2> HIDE DEF n, m
  <2>4. Talks(up[w], down[w], client[w], session[w], refresh[w], m)
    BY <2>1, <2>2, <2>3 DEF Talks
  <2> QED
    BY <2>4 DEF m
<1> QED
  BY <1>2, <1>3 DEF IInv

LEMMA OtherStep ==
  ASSUME IInv, NEW w \in Other,
         \/ \E kind \in {"valid", "block"} : OtherSubmits(w, kind)
         \/ OtherSubmitsBlock(w)
  PROVE  IInv'
<1>1. CreditsType /\ TypeOK /\ SoloInv /\ UNCHANGED <<refresh, workers>> /\ solo' = solo
  BY DEF IInv, OtherSubmits, OtherSubmitsBlock
<1>2. CASE \E kind \in {"valid", "block"} : OtherSubmits(w, kind)
  <2>1. PICK kind \in {"valid", "block"} : CreditShare(w, kind)
    BY <1>2 DEF OtherSubmits
  <2>2. node' = node
    BY <1>2 DEF OtherSubmits
  <2>3. CreditsType' /\ CreditsGrow
    BY <1>1, <2>1, CreditStep
  <2>4. SoloInv'
    BY <1>1, <2>2 DEF SoloInv
  <2>5. node' \in [height : Nat, pool : Nat, solo : Nat]
    BY <1>1, <2>2 DEF TypeOK
  <2> QED
    BY <1>1, <2>3, <2>4, <2>5, RestStep
<1>3. CASE OtherSubmitsBlock(w)
  <2>1. PICK ok \in BOOLEAN : SubmitBlock("pool", other[w], ok)
    BY <1>3 DEF OtherSubmitsBlock
  <2>2. ledger' = ledger
    BY <1>3 DEF OtherSubmitsBlock
  <2>3. node' \in [height : Nat, pool : Nat, solo : Nat] /\ node'.solo = node.solo
    BY <1>1, <2>1, SubmitBlockNode
  <2>4. CreditsType' /\ CreditsGrow
    BY <1>1, <2>2, SameLedger
  <2>5. SoloInv'
    BY <1>1, <2>3 DEF SoloInv
  <2> QED
    BY <1>1, <2>3, <2>4, <2>5, RestStep
<1> QED
  BY <1>2, <1>3

\* The solo miner counts a block when the node has it.
LEMMA SoloStep ==
  ASSUME IInv, SoloWork \/ SoloMines
  PROVE  IInv'
<1>1. /\ CreditsType /\ TypeOK /\ SoloInv /\ UNCHANGED <<refresh, workers>>
      /\ ledger' = ledger
  BY DEF IInv, SoloWork, SoloMines
<1>2. CreditsType' /\ CreditsGrow
  BY <1>1, SameLedger
<1>3. /\ node \in [height : Nat, pool : Nat, solo : Nat] /\ node.solo \in Nat
      /\ solo.accepted \in Nat /\ solo.accepted <= node.solo
  BY <1>1 DEF TypeOK, SoloInv, SoloType
<1>4. CASE SoloWork
  <2> DEFINE s == [at |-> "mine", accepted |-> solo.accepted, height |-> node.height + 1]
  <2>1. solo' = s /\ node' = node
    BY <1>4 DEF SoloWork
  <2>2. s \in SoloType /\ s.accepted = solo.accepted
    BY <1>3 DEF SoloType
  <2>3. SoloInv'
    BY <1>3, <2>1, <2>2 DEF SoloInv
  <2> QED
    BY <1>1, <1>2, <1>3, <2>1, <2>3, RestStep
<1>5. CASE SoloMines
  <2>1. PICK ok \in BOOLEAN :
          /\ SubmitBlock("solo", solo.height, ok)
          /\ solo' = [at |-> "work", accepted |-> solo.accepted + IF ok THEN 1 ELSE 0]
    BY <1>5 DEF SoloMines
  <2> DEFINE more == IF ok THEN 1 ELSE 0
             s == [at |-> "work", accepted |-> solo.accepted + more]
  <2>2. more \in Nat /\ more <= 1 /\ (~ok => more = 0)
    OBVIOUS
  <2>3. solo' = s
    BY <2>1
  <2> HIDE DEF more
  <2>4. s \in SoloType /\ s.accepted = solo.accepted + more
    BY <1>3, <2>2 DEF SoloType
  <2> HIDE DEF s
  <2>5. CASE Mined("solo")
    <3>1. node' = [node EXCEPT !.height = @ + 1, !["solo"] = @ + 1]
      BY <2>5 DEF Mined
    <3>2. node' = [height |-> node.height + 1, pool |-> node.pool, solo |-> node.solo + 1]
      BY Zenon, <1>3, <3>1
    <3>3. node' \in [height : Nat, pool : Nat, solo : Nat] /\ node'.solo = node.solo + 1
      BY <1>3, <3>2
    <3>4. SoloInv'
      BY <1>3, <2>2, <2>3, <2>4, <3>3 DEF SoloInv
    <3> QED
      BY <1>1, <1>2, <3>3, <3>4, RestStep
  <2>6. CASE ~ok /\ node' = node
    <3>1. SoloInv'
      BY <1>3, <2>2, <2>3, <2>4, <2>6 DEF SoloInv
    <3> QED
      BY <1>1, <1>2, <1>3, <2>6, <3>1, RestStep
  <2> QED
    BY <2>1, <2>5, <2>6 DEF SubmitBlock
<1> QED
  BY <1>4, <1>5

-----------------------------------------------------------------------------
LEMMA NextInv ==
  ASSUME IInv, [Next]_vars
  PROVE  IInv'
<1>1. CASE \E r \in Refresher : Fetch(r) \/ handleMiningWork(r) \/ FetchFails(r) \/ Install(r)
  BY <1>1, FetchStep, FetchFailsStep, InstallStep
<1>2. ASSUME NEW w \in Worker,
             \/ Subscribe(w) \/ Authorize(w) \/ Submit(w) \/ SubmitShareBlock(w)
             \/ SessionEnds(w)
      PROVE  IInv'
  BY <1>2, SubscribeStep, AuthorizeStep, SubmitStep, SubmitShareBlockStep, SessionEndsStep
<1>3. ASSUME NEW w \in Worker,
             \/ Dial(w) \/ Return(w) \/ CallFails(w) \/ NextJob(w)
             \/ \E kind \in {"valid", "block"} : MineShare(w, kind)
      PROVE  IInv'
  BY <1>3, DialStep, ReturnStep, CallFailsStep, NextJobStep, MineShareStep
<1>4. CASE \E w \in Other : \/ \E kind \in {"valid", "block"} : OtherSubmits(w, kind)
                            \/ OtherSubmitsBlock(w)
  BY <1>4, OtherStep
<1>5. CASE SoloWork \/ SoloMines
  BY <1>5, SoloStep
<1>6. CASE UNCHANGED vars
  <2>1. UNCHANGED <<node, refresh, workers, ledger, solo>>
    BY <1>6 DEF vars
  <2>2. CreditsType' /\ CreditsGrow
    BY <2>1, SameLedger DEF IInv
  <2>3. SoloInv' /\ node' \in [height : Nat, pool : Nat, solo : Nat]
    BY <2>1 DEF IInv, SoloInv, TypeOK
  <2> QED
    BY <2>1, <2>2, <2>3, RestStep
<1> QED
  BY <1>1, <1>2, <1>3, <1>4, <1>5, <1>6 DEF Next

LEMMA InitInv ==
  ASSUME Init
  PROVE  IInv
<1>1. TypeOK
  <2>1. <<>> \in Seq(UpLine) /\ <<>> \in Seq(DownLine)
    OBVIOUS
  <2>2. /\ NoWork \in RefreshType /\ NoSession \in SessionType /\ Started \in ClientType
        /\ [height |-> 0, pool |-> 0, solo |-> 0] \in [height : Nat, pool : Nat, solo : Nat]
    BY DEF NoWork, NoSession, Started, RefreshType, SessionType, ClientType
  <2> QED
    BY <2>1, <2>2 DEF Init, TypeOK
<1>2. CreditsType
  BY DEF Init, NewPayoutLedger, CreditsType
<1>3. ASSUME NEW w \in Worker PROVE Talk(w)
  <2> SUFFICES ASSUME NEW scheme \in PayoutScheme
               PROVE  Talks(up[w], down[w], client[w], session[w], refresh[w],
                            ledger[scheme].credited[w])
    BY DEF Talk
  <2>1. /\ up[w] = <<>> /\ down[w] = <<>> /\ client[w] = Started /\ session[w] = NoSession
        /\ refresh[w] = NoWork /\ ledger[scheme].credited[w] = 0
    BY DEF Init, Refresher, NewPayoutLedger
  <2>2. Lines(<<>>) = {}
    BY DEF Lines
  <2>3. /\ Started.at = "start" /\ Started.counted = 0 /\ NoSession.at = "closed"
        /\ NoWork.at = "idle"
    BY DEF Started, NoSession, NoWork
  <2> QED
    BY <2>1, <2>2, <2>3 DEF Talks
<1>4. SoloInv
  BY DEF Init, SoloInv, SoloType
<1> QED
  BY Zenon, <1>1, <1>2, <1>3, <1>4 DEF IInv, CreditsType

LEMMA InvImplies ==
  ASSUME IInv
  PROVE  AcceptedIsCredited
BY DEF IInv, Talk, Talks, SoloInv, AcceptedIsCredited

(***************************************************************************)
(* Whatever times out, is answered late or lost: a share that a worker     *)
(* counts as accepted is in the ledger of the pool, and a block that the   *)
(* solo miner counts is in the chain (stratum.Client.call,                 *)
(* stratum.Loop.Run, gpuminer.Loop.Run), for any number of workers.        *)
(***************************************************************************)
THEOREM MiningSafety == Spec => []AcceptedIsCredited
<1>1. Init => IInv
  BY InitInv
<1>2. IInv /\ [Next]_vars => IInv'
  BY NextInv
<1>3. IInv => AcceptedIsCredited
  BY InvImplies
<1> QED
  BY <1>1, <1>2, <1>3, PTL DEF Spec
=============================================================================
