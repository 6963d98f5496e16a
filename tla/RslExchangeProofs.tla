--------------------------- MODULE RslExchangeProofs ---------------------------
(***************************************************************************)
(* Proofs about the stencil exchange of RslExchange: the inductive         *)
(* invariant, the safety properties that follow from it, and that the      *)
(* exchange implements the message-free HaloExchange.                      *)
(***************************************************************************)
EXTENDS RslExchange, TLAPS

\* A processor has no tables for itself.
LEMMA NothingForItself ==
  ASSUME NEW k \in 1..MaxCall, NEW p \in Proc
  PROVE  Unpack[Prog[k]][p][p] = {} /\ Pack[Prog[k]][p][p] = {}
BY ExchangeAssumption, CompiledAssumption

\* The tables hold cells.
LEMMA TableCells ==
  ASSUME NEW k \in 1..MaxCall, NEW p \in Proc, NEW q \in Proc
  PROVE  Unpack[Prog[k]][p][q] \subseteq Cell /\ Pack[Prog[k]][p][q] \subseteq Cell
BY ExchangeAssumption DEF Table

\* What is packed in a call is what is unpacked in it.
LEMMA PackIsUnpack ==
  ASSUME NEW k \in 1..MaxCall, NEW p \in Proc, NEW q \in Proc
  PROVE  /\ Pack[Prog[k]][p][q] = Unpack[Prog[k]][q][p]
         /\ \A c \in Pack[Prog[k]][p][q] : Owner[c] = p
BY ExchangeAssumption, CompiledAssumption

\* A step that sends nothing and takes nothing leaves the network's invariant.
LEMMA NetUnchanged ==
  ASSUME TypeOK, NetInv, net' = net,
         \A p, q \in Proc, k \in 1..MaxCall : Transfer(q, p, k) =>
           (Sent(q, p, k)' <=> Sent(q, p, k)) /\ (Taken(p, q, k)' <=> Taken(p, q, k))
  PROVE  NetInv'
<1>1. \A m \in net : m.src \in Proc /\ m.dst \in Proc /\ m.call \in 1..MaxCall
  BY DEF TypeOK
<1>2. NetSound'
  <2> SUFFICES ASSUME NEW m \in net
               PROVE  /\ Transfer(m.src, m.dst, m.call)
                      /\ Sent(m.src, m.dst, m.call)' /\ ~ Taken(m.dst, m.src, m.call)'
                      /\ m = Fresh(m.src, m.dst, m.call)
    BY DEF NetSound, Transfer, Fresh, Msg, Sent, Taken, Request
  <2> QED
    BY <1>1 DEF NetInv, NetSound, Sent, Taken, Request
<1>3. NetComplete'
  BY DEF NetInv, NetComplete, Transfer, Fresh, Msg, Sent, Taken, Request
<1>4. NetCausal'
  BY DEF NetInv, NetCausal, Transfer, Sent, Taken, Request
<1> QED
  BY <1>2, <1>3, <1>4 DEF NetInv

\* The initial state satisfies the invariant: nothing has been called.
LEMMA InitIInv == Init => IInv
<1> SUFFICES ASSUME Init PROVE IInv
  OBVIOUS
<1>1. TypeOK
  BY ExchangeAssumption DEF Init, TypeOK, Handle, Garbage
<1>2. NetInv
  BY DEF Init, NetInv, NetSound, NetComplete, NetCausal, Sent, Taken, Transfer
<1>3. LocalInv
  BY DEF Init, LocalInv, Loops, Requests, Values, Request
<1> QED
  BY <1>1, <1>2, <1>3 DEF IInv

\* A processor none of whose variables a step changes keeps its local
\* invariant.
LEMMA Bystander ==
  ASSUME NEW r \in Proc, Loops(r), Requests(r), Values(r),
         pc'[r] = pc[r], call'[r] = call[r], mem'[r] = mem[r],
         toPost'[r] = toPost[r], toSend'[r] = toSend[r], Pque'[r] = Pque[r],
         peer'[r] = peer[r], lut'[r] = lut[r], handle'[r] = handle[r],
         posted'[r] = posted[r], done'[r] = done[r], rbuf'[r] = rbuf[r]
  PROVE  Loops(r)' /\ Requests(r)' /\ Values(r)'
<1>1. Loops(r)'
  BY DEF Loops, Request, Inbound
<1>2. Requests(r)'
  BY DEF Requests, Request
<1>3. Values(r)'
  BY DEF Values, Inbound
<1> QED
  BY <1>1, <1>2, <1>3

\* What it takes to re-establish the invariant after a step of p.
LEMMA StepOf ==
  ASSUME IInv, NEW p \in Proc, TypeOK', NetInv',
         Loops(p)', Requests(p)', Values(p)',
         \A r \in Proc \ {p} :
           /\ pc'[r] = pc[r] /\ call'[r] = call[r] /\ mem'[r] = mem[r]
           /\ toPost'[r] = toPost[r] /\ toSend'[r] = toSend[r] /\ Pque'[r] = Pque[r]
           /\ peer'[r] = peer[r] /\ lut'[r] = lut[r] /\ handle'[r] = handle[r]
           /\ posted'[r] = posted[r] /\ done'[r] = done[r] /\ rbuf'[r] = rbuf[r]
  PROVE  IInv'
<1>1. ASSUME NEW r \in Proc, r # p PROVE Loops(r)' /\ Requests(r)' /\ Values(r)'
  <2>1. Loops(r) /\ Requests(r) /\ Values(r)
    BY DEF IInv, LocalInv
  <2> QED
    BY <1>1, <2>1, Bystander
<1>2. ASSUME NEW r \in Proc PROVE Loops(r)' /\ Requests(r)' /\ Values(r)'
  <2>1. CASE r = p
    BY <2>1
  <2>2. CASE r # p
    BY <2>2, <1>1
  <2> QED
    BY <2>1, <2>2
<1> QED
  BY <1>2 DEF IInv, LocalInv

\* Entering a call: nothing of the new call is sent or taken yet.
LEMMA EnterIInv == ASSUME IInv, NEW p \in Proc, Enter(p) PROVE IInv'
<1>1. /\ TypeOK /\ NetInv /\ Loops(p) /\ Requests(p) /\ Values(p)
      /\ pc[p] = "compute" /\ call[p] < MaxCall
  BY DEF IInv, LocalInv, Enter
<1>2. /\ Pque' = Pque /\ peer' = peer /\ lut' = lut /\ handle' = handle
      /\ posted' = posted /\ done' = done /\ rbuf' = rbuf /\ net' = net
  BY DEF Enter, mpi
<1>3. /\ pc'[p] = "exch" /\ call'[p] = call[p] + 1
      /\ toPost'[p] = Proc \ {p} /\ toSend'[p] = Proc \ {p}
      /\ \A c \in Cell : mem'[p][c] = IF Owner[c] = p THEN call[p] + 1 ELSE mem[p][c]
  BY <1>1 DEF TypeOK, Enter
<1>4. \A r \in Proc \ {p} :
        /\ pc'[r] = pc[r] /\ call'[r] = call[r] /\ mem'[r] = mem[r]
        /\ toPost'[r] = toPost[r] /\ toSend'[r] = toSend[r]
  BY <1>1 DEF TypeOK, Enter
<1>5. /\ \A r \in Proc : call[r] \in Nat
      /\ call'[p] \in 1..MaxCall
  <2>1. \A r \in Proc : call[r] \in 0..MaxCall
    BY <1>1 DEF TypeOK
  <2> QED
    BY <2>1, <1>1, <1>3, ExchangeAssumption
<1>6. TypeOK'
  <2>1. /\ pc' \in [Proc -> {"compute", "exch", "blocked", "waiting"}]
        /\ call' \in [Proc -> 0..MaxCall] /\ mem' \in [Proc -> [Cell -> 0..MaxCall]]
        /\ toPost' \in [Proc -> SUBSET Proc] /\ toSend' \in [Proc -> SUBSET Proc]
    BY <1>1, ExchangeAssumption DEF TypeOK, Enter
  <2> QED
    BY <2>1, <1>1, <1>2 DEF TypeOK, Msg
<1>7. /\ toPost[p] = {} /\ toSend[p] = {} /\ Pque[p] = {}
      /\ posted[p] = {} /\ done[p] = {} /\ lut[p] = {}
  BY <1>1 DEF Loops, Requests
<1>8. Loops(p)' /\ Requests(p)'
  <2>1. /\ Pque'[p] = {} /\ posted'[p] = {} /\ done'[p] = {} /\ lut'[p] = {}
        /\ pc'[p] = "exch" /\ call'[p] > 0
    BY <1>2, <1>3, <1>5, <1>7
  <2>2. Loops(p)'
    BY <2>1 DEF Loops
  <2>3. Requests(p)'
    BY <2>1 DEF Requests
  <2> QED
    BY <2>2, <2>3
<1>9. Values(p)'
  <2>1. Inbound(p, p)' = {}
    BY <1>5, NothingForItself DEF Inbound
  <2>2. \A q \in Proc : q \notin toPost'[p] => q = p
    BY <1>3
  <2>3. \A c \in Cell : Owner[c] = p => mem'[p][c] = call'[p]
    BY <1>3
  <2>4. done'[p] = {}
    BY <1>2, <1>7
  <2> QED
    BY <2>1, <2>2, <2>3, <2>4 DEF Values, Inbound
<1>10. NetInv'
  <2>1. ASSUME NEW r \in Proc, NEW q \in Proc, NEW k \in 1..MaxCall, Transfer(q, r, k)
        PROVE  (Sent(q, r, k)' <=> Sent(q, r, k)) /\ (Taken(r, q, k)' <=> Taken(r, q, k))
    <3>1. q # r
      BY <2>1, NothingForItself DEF Transfer
    <3>2. Sent(q, r, k)' <=> Sent(q, r, k)
      <4>1. CASE q = p
        BY <4>1, <3>1, <1>3, <1>5, <1>7 DEF Sent
      <4>2. CASE q # p
        BY <4>2, <1>4 DEF Sent
      <4> QED
        BY <4>1, <4>2
    <3>3. Taken(r, q, k)' <=> Taken(r, q, k)
      <4>1. CASE r = p
        BY <4>1, <3>1, <1>2, <1>3, <1>5, <1>7 DEF Taken
      <4>2. CASE r # p
        BY <4>2, <1>2, <1>4 DEF Taken, Request
      <4> QED
        BY <4>1, <4>2
    <3> QED
      BY <3>2, <3>3
  <2> QED
    BY <1>1, <1>2, <2>1, NetUnchanged
<1> QED
  BY <1>2, <1>4, <1>5, <1>6, <1>8, <1>9, <1>10, StepOf

\* Posting a receive: the request is the only one for its sender.
LEMMA PostRecvIInv ==
  ASSUME IInv, NEW p \in Proc, NEW q \in Proc, PostRecv(p, q) PROVE IInv'
<1>1. /\ TypeOK /\ NetInv /\ Loops(p) /\ Requests(p) /\ Values(p)
      /\ pc[p] = "exch" /\ q \in toPost[p]
  BY DEF IInv, LocalInv, PostRecv
<1>2. /\ pc' = pc /\ call' = call /\ mem' = mem /\ toSend' = toSend /\ peer' = peer
      /\ handle' = handle /\ done' = done /\ rbuf' = rbuf /\ net' = net
  BY DEF PostRecv
<1>3. /\ \A r \in Proc : call[r] \in Nat 
      /\ call[p] \in 1..MaxCall
  BY <1>1, ExchangeAssumption DEF TypeOK, Loops
<1>4. /\ toPost'[p] = toPost[p] \ {q} /\ toPost' \in [Proc -> SUBSET Proc]
      /\ \A r \in Proc \ {p} : toPost'[r] = toPost[r]
  BY <1>1 DEF TypeOK, PostRecv
<1>5. Request(p, q).tag = q /\ Request(p, q).call = call[p] /\ Request(p, q) \in Handle
  BY <1>3 DEF Request, Handle
<1>6. CASE Inbound(p, q) = {}
  <2>1. Pque' = Pque /\ posted' = posted /\ lut' = lut
    BY <1>6 DEF PostRecv
  <2>2. TypeOK'
    BY <1>1, <1>2, <1>4, <2>1 DEF TypeOK, Msg
  <2>3. Loops(p)' /\ Requests(p)'
    BY <1>1, <1>2, <1>4, <2>1 DEF Loops, Requests, Request, Inbound
  <2>4. NetInv'
    <3>1. ~ Transfer(q, p, call[p])
      BY <1>6, <1>3, PackIsUnpack DEF Transfer, Inbound
    <3>2. ASSUME NEW r \in Proc, NEW s \in Proc, NEW k \in 1..MaxCall, Transfer(s, r, k)
          PROVE  (Sent(s, r, k)' <=> Sent(s, r, k)) /\ (Taken(r, s, k)' <=> Taken(r, s, k))
      BY <3>1, <3>2, <1>2, <1>4, <2>1 DEF Sent, Taken, Request
    <3> QED
      BY <3>2, <1>1, <1>2, NetUnchanged
  <2>5. Values(p)'
    <3>1. ASSUME NEW s \in Proc, s \notin toPost'[p], NEW c \in Inbound(p, s)
          PROVE  s \notin toPost[p]
      BY <3>1, <1>4, <1>6
    <3> QED
      BY <3>1, <1>1, <1>2, <2>1 DEF Values, Inbound
  <2> QED
    BY <1>2, <1>3, <1>4, <2>1, <2>2, <2>3, <2>4, <2>5, StepOf
<1>7. CASE Inbound(p, q) # {}
  <2>1. /\ Pque' = [Pque EXCEPT ![p] = @ \union {q}]
        /\ posted' = [posted EXCEPT ![p] = @ \union {Request(p, q)}]
        /\ lut' = [lut EXCEPT ![p] = @ \union {Request(p, q)}]
    BY <1>7 DEF PostRecv
  <2>2. /\ Pque'[p] = Pque[p] \union {q}
        /\ posted'[p] = posted[p] \union {Request(p, q)}
        /\ lut'[p] = lut[p] \union {Request(p, q)}
        /\ \A r \in Proc \ {p} :
             Pque'[r] = Pque[r] /\ posted'[r] = posted[r] /\ lut'[r] = lut[r]
    BY <2>1, <1>1 DEF TypeOK
  <2>3. TypeOK'
    <3>1. /\ Pque' \in [Proc -> SUBSET Proc]
          /\ posted' \in [Proc -> SUBSET Handle] /\ lut' \in [Proc -> SUBSET Handle]
      BY <1>1, <1>5, <2>1 DEF TypeOK
    <3> QED
      BY <3>1, <1>1, <1>2, <1>4 DEF TypeOK, Msg
  <2>4. q \notin Pque[p] /\ Request(p, q) \notin done[p]
    BY <1>1, <1>5 DEF Loops, Requests
  <2>5. Loops(p)'
    BY <1>1, <1>2, <1>4, <1>7, <2>2 DEF Loops, Inbound
  <2>6. Requests(p)'
    <3>1. \A s \in Pque[p] : Request(p, s) # Request(p, q)
      BY <2>4 DEF Request
    <3> QED
      BY <3>1, <1>1, <1>2, <1>5, <2>2, <2>4 DEF Requests, Request
  <2>7. NetInv'
    <3>1. ASSUME NEW r \in Proc, NEW s \in Proc, NEW k \in 1..MaxCall
          PROVE  (Sent(s, r, k)' <=> Sent(s, r, k)) /\ (Taken(r, s, k)' <=> Taken(r, s, k))
      <4>1. Sent(s, r, k)' <=> Sent(s, r, k)
        BY <1>2 DEF Sent
      <4>2. CASE r = p
        <5>1. Request(p, s)' = Request(p, s)
          BY <1>2 DEF Request
        <5>2. s # q => (Request(p, s) \in posted'[p] <=> Request(p, s) \in posted[p])
          BY <2>2 DEF Request
        <5>3. q \in toPost[p] /\ Request(p, q) \in posted'[p]
          BY <1>1, <2>2
        <5> QED
          BY <4>1, <4>2, <5>2, <5>3, <1>2, <1>4 DEF Taken, Request
      <4>3. CASE r # p
        BY <4>1, <4>3, <1>2, <1>4, <2>2 DEF Taken, Request
      <4> QED
        BY <4>2, <4>3
    <3> QED
      BY <3>1, <1>1, <1>2, NetUnchanged
  <2>8. Values(p)'
    <3>1. \A s \in Proc : s \notin toPost'[p] /\ s \notin Pque'[p] =>
            s \notin toPost[p] /\ s \notin Pque[p]
      BY <1>4, <2>2
    <3> QED
      BY <3>1, <1>1, <1>2 DEF Values, Inbound
  <2> QED
    BY <1>2, <1>3, <1>4, <2>2, <2>3, <2>5, <2>6, <2>7, <2>8, StepOf
<1> QED
  BY <1>6, <1>7

\* Sending: the message is the fresh one of this call, and goes in flight
\* unless its receiver has somehow taken it, which it cannot before it is sent.
LEMMA SendIInv ==
  ASSUME IInv, NEW p \in Proc, NEW q \in Proc, Send(p, q) PROVE IInv'
<1>1. /\ TypeOK /\ NetInv /\ Loops(p) /\ Requests(p) /\ Values(p)
      /\ pc[p] = "exch" /\ toPost[p] = {} /\ q \in toSend[p]
  BY DEF IInv, LocalInv, Send
<1>2. /\ call' = call /\ mem' = mem /\ toPost' = toPost /\ Pque' = Pque /\ lut' = lut
      /\ handle' = handle /\ posted' = posted /\ done' = done /\ rbuf' = rbuf
  BY DEF Send
<1>3. /\ \A r \in Proc : call[r] \in Nat 
      /\ call[p] \in 1..MaxCall
  BY <1>1, ExchangeAssumption DEF TypeOK, Loops
<1>4. /\ toSend'[p] = toSend[p] \ {q} /\ toSend' \in [Proc -> SUBSET Proc]
      /\ \A r \in Proc \ {p} : toSend'[r] = toSend[r]
  BY <1>1 DEF TypeOK, Send
<1>5. /\ peer' \in [Proc -> Proc] /\ pc' \in [Proc -> {"compute", "exch", "blocked", "waiting"}]
      /\ pc'[p] \in {"exch", "blocked"}
      /\ \A r \in Proc \ {p} : peer'[r] = peer[r] /\ pc'[r] = pc[r]
  <2>1. CASE Outbound(p, q) = {}
    BY <2>1, <1>1 DEF TypeOK, Send
  <2>2. CASE Outbound(p, q) # {}
    <3>1. peer' = [peer EXCEPT ![p] = q] /\ pc' \in {pc, [pc EXCEPT ![p] = "blocked"]}
      BY <2>2 DEF Send
    <3>2. CASE pc' = pc
      BY <3>1, <3>2, <1>1 DEF TypeOK
    <3>3. CASE pc' = [pc EXCEPT ![p] = "blocked"]
      BY <3>1, <3>3, <1>1 DEF TypeOK
    <3> QED
      BY <3>1, <3>2, <3>3
  <2> QED
    BY <2>1, <2>2
<1>6. Loops(p)' /\ Requests(p)'
  BY <1>1, <1>2, <1>3, <1>5 DEF Loops, Requests, Request, Inbound
<1>7. Values(p)'
  BY <1>1, <1>2 DEF Values, Inbound
<1>8. ASSUME NEW r \in Proc, NEW s \in Proc, NEW k \in 1..MaxCall
      PROVE  /\ Taken(r, s, k)' <=> Taken(r, s, k)
             /\ Sent(s, r, k)' <=> Sent(s, r, k) \/ (s = p /\ r = q /\ k = call[p])
  BY <1>1, <1>2, <1>3, <1>4 DEF Taken, Sent, Request
<1>9. Outbound(p, q) # {} <=> Transfer(p, q, call[p])
  BY <1>3 DEF Transfer, Outbound
<1>10. CASE Outbound(p, q) = {}
  <2>1. net' = net
    BY <1>10 DEF Send
  <2>2. NetInv'
    BY <2>1, <1>1, <1>8, <1>9, <1>10, NetUnchanged
  <2>3. TypeOK'
    BY <2>1, <1>1, <1>2, <1>4, <1>5 DEF TypeOK, Msg
  <2> QED
    BY <2>2, <2>3, <1>2, <1>3, <1>4, <1>5, <1>6, <1>7, StepOf
<1>11. CASE Outbound(p, q) # {}
  <2> DEFINE m == Fresh(p, q, call[p])
  <2>1. net' = net \union {m}
    <3>1. \A c \in Outbound(p, q) : c \in Cell /\ mem[p][c] = call[p]
      BY <1>1, <1>3, TableCells, PackIsUnpack DEF Outbound, Values
    <3>2. [c \in Outbound(p, q) |-> mem[p][c]] = [c \in Outbound(p, q) |-> call[p]]
      BY <3>1
    <3> QED
      BY <3>2, <1>11 DEF Send, Fresh, Outbound
  <2>2. /\ m.src = p /\ m.dst = q /\ m.call = call[p]
        /\ m.data = [c \in Pack[Prog[call[p]]][p][q] |-> call[p]]
        /\ m = Msg(m.src, m.dst, m.call, m.data)
        /\ m = Fresh(m.src, m.dst, m.call)
    BY DEF Fresh, Msg
  <2>3. TypeOK'
    <3>1. m.data \in [Pack[Prog[m.call]][m.src][m.dst] -> 0..MaxCall]
      BY <2>2, <1>3, ExchangeAssumption
    <3>2. \A n \in net' : /\ n.src \in Proc /\ n.dst \in Proc /\ n.call \in 1..MaxCall
                          /\ n.data \in [Pack[Prog[n.call]][n.src][n.dst] -> 0..MaxCall]
                          /\ n = Msg(n.src, n.dst, n.call, n.data)
      BY <3>1, <2>1, <2>2, <1>1, <1>3 DEF TypeOK
    <3> QED
      BY <3>2, <1>1, <1>2, <1>4, <1>5 DEF TypeOK, Msg
  <2>4. NetInv'
    <3>1. Transfer(p, q, call[p]) /\ ~ Sent(p, q, call[p]) /\ ~ Taken(q, p, call[p])
      BY <1>1, <1>3, <1>9, <1>11 DEF Sent, NetInv, NetCausal
    <3>2. NetSound'
      <4> SUFFICES ASSUME NEW n \in net'
                   PROVE  /\ Transfer(n.src, n.dst, n.call)
                          /\ Sent(n.src, n.dst, n.call)' /\ ~ Taken(n.dst, n.src, n.call)'
                          /\ n = Fresh(n.src, n.dst, n.call)
        BY DEF NetSound, Transfer, Fresh, Msg, Sent, Taken, Request
      <4>1. CASE n = m
        BY <4>1, <3>1, <2>2, <1>3, <1>8
      <4>2. CASE n \in net
        <5>1. n.src \in Proc /\ n.dst \in Proc /\ n.call \in 1..MaxCall
          BY <4>2, <1>1 DEF TypeOK
        <5> QED
          BY <5>1, <4>2, <1>1, <1>8 DEF NetInv, NetSound
      <4> QED
        BY <4>1, <4>2, <2>1
    <3>3. NetComplete'
      <4> SUFFICES ASSUME NEW r \in Proc, NEW s \in Proc, NEW k \in 1..MaxCall,
                          Transfer(s, r, k), Sent(s, r, k)', ~ Taken(r, s, k)'
                   PROVE  Fresh(s, r, k) \in net'
        BY DEF NetComplete, Transfer, Fresh, Msg, Sent, Taken, Request
      <4>1. CASE s = p /\ r = q /\ k = call[p]
        BY <4>1, <2>1
      <4>2. CASE ~ (s = p /\ r = q /\ k = call[p])
        BY <4>2, <2>1, <1>1, <1>8 DEF NetInv, NetComplete
      <4> QED
        BY <4>1, <4>2
    <3>4. NetCausal'
      <4> SUFFICES ASSUME NEW r \in Proc, NEW s \in Proc, NEW k \in 1..MaxCall,
                          Transfer(s, r, k), Taken(r, s, k)'
                   PROVE  Sent(s, r, k)'
        BY DEF NetCausal, Transfer, Sent, Taken, Request
      <4> QED
        BY <1>1, <1>8 DEF NetInv, NetCausal
    <3> QED
      BY <3>2, <3>3, <3>4 DEF NetInv
  <2> QED
    BY <2>3, <2>4, <1>2, <1>3, <1>4, <1>5, <1>6, <1>7, StepOf
<1> QED
  BY <1>10, <1>11

\* A blocked send returns: only the program counter moves.
LEMMA SendReturnsIInv ==
  ASSUME IInv, NEW p \in Proc, SendReturns(p) PROVE IInv'
<1>1. /\ TypeOK /\ NetInv /\ Loops(p) /\ Requests(p) /\ Values(p)
      /\ pc[p] = "blocked"
  BY DEF IInv, LocalInv, SendReturns
<1>2. /\ call' = call /\ mem' = mem /\ toPost' = toPost /\ toSend' = toSend
      /\ Pque' = Pque /\ peer' = peer /\ lut' = lut /\ handle' = handle
      /\ posted' = posted /\ done' = done /\ rbuf' = rbuf /\ net' = net
  BY DEF SendReturns, local, mpi
<1>3. /\ pc' \in [Proc -> {"compute", "exch", "blocked", "waiting"}] /\ pc'[p] = "exch"
      /\ \A r \in Proc \ {p} : pc'[r] = pc[r]
  BY <1>1 DEF TypeOK, SendReturns
<1>4. TypeOK'
  BY <1>1, <1>2, <1>3 DEF TypeOK, Msg
<1>5. Loops(p)' /\ Requests(p)'
  BY <1>1, <1>2, <1>3 DEF Loops, Requests, Request, Inbound
<1>6. Values(p)'
  BY <1>1, <1>2 DEF Values, Inbound
<1>7. NetInv'
  BY <1>1, <1>2, NetUnchanged DEF Sent, Taken, Request
<1> QED
  BY <1>2, <1>3, <1>4, <1>5, <1>6, <1>7, StepOf

\* Looking a handle up: the LUT has the request of this call under the tag,
\* and no other.
LEMMA FindWaitHIInv ==
  ASSUME IInv, NEW p \in Proc, NEW q \in Proc, FindWaitH(p, q) PROVE IInv'
<1>1. /\ TypeOK /\ NetInv /\ Loops(p) /\ Requests(p) /\ Values(p)
      /\ pc[p] = "exch" /\ toPost[p] = {} /\ toSend[p] = {} /\ q \in Pque[p]
  BY DEF IInv, LocalInv, FindWaitH
<1>2. /\ call' = call /\ mem' = mem /\ toPost' = toPost /\ toSend' = toSend
      /\ Pque' = Pque /\ posted' = posted /\ done' = done /\ rbuf' = rbuf /\ net' = net
      /\ peer' = [peer EXCEPT ![p] = q] /\ pc' = [pc EXCEPT ![p] = "waiting"]
  BY DEF FindWaitH, local
<1>3. Request(p, q) \in lut[p] /\ Request(p, q).tag = q
  BY <1>1 DEF Requests, Request
<1>4. \A h \in lut[p] : h.tag = q => h = Request(p, q)
  <2>1. ASSUME NEW h \in lut[p], h.tag = q PROVE h = Request(p, q)
    <3>1. h \in Handle /\ h.call = call[p]
      BY <1>1 DEF TypeOK, Requests
    <3> QED
      BY <2>1, <3>1 DEF Handle, Request
  <2> QED
    BY <2>1
<1>5. /\ handle' = [handle EXCEPT ![p] = Request(p, q)]
      /\ lut' = [lut EXCEPT ![p] = @ \ {Request(p, q)}]
  BY <1>3, <1>4 DEF FindWaitH
<1>6. Request(p, q) \in Handle
  BY <1>1, <1>3 DEF TypeOK
<1>7. /\ pc'[p] = "waiting" /\ peer'[p] = q /\ handle'[p] = Request(p, q)
      /\ lut'[p] = lut[p] \ {Request(p, q)}
      /\ \A r \in Proc \ {p} : /\ pc'[r] = pc[r] /\ peer'[r] = peer[r]
                               /\ handle'[r] = handle[r] /\ lut'[r] = lut[r]
  BY <1>1, <1>2, <1>5 DEF TypeOK
<1>8. TypeOK'
  <2>1. /\ pc' \in [Proc -> {"compute", "exch", "blocked", "waiting"}]
        /\ peer' \in [Proc -> Proc] /\ handle' \in [Proc -> Handle \union {Garbage}]
        /\ lut' \in [Proc -> SUBSET Handle]
    BY <1>1, <1>2, <1>5, <1>6 DEF TypeOK
  <2> QED
    BY <2>1, <1>1, <1>2 DEF TypeOK, Msg
<1>9. Loops(p)'
  BY <1>1, <1>2, <1>7 DEF Loops, Request, Inbound
<1>10. Requests(p)'
  <2>1. \A h \in lut'[p] : h \in lut[p] /\ h.tag # q
    BY <1>4, <1>7
  <2>2. \A s \in Pque[p] : s = q \/ Request(p, s) \in lut'[p]
    BY <1>1, <1>3, <1>7 DEF Requests, Request
  <2> QED
    BY <2>1, <2>2, <1>1, <1>2, <1>7 DEF Requests, Request
<1>11. Values(p)'
  BY <1>1, <1>2 DEF Values, Inbound
<1>12. NetInv'
  BY <1>1, <1>2, NetUnchanged DEF Sent, Taken, Request
<1> QED
  BY <1>2, <1>7, <1>8, <1>9, <1>10, <1>11, <1>12, StepOf

\* Unpacking: the request waited for has completed, so the buffer is filled.
LEMMA WaitUnpackIInv ==
  ASSUME IInv, NEW p \in Proc, WaitUnpack(p) PROVE IInv'
<1> DEFINE q == peer[p]
<1>1. /\ TypeOK /\ NetInv /\ Loops(p) /\ Requests(p) /\ Values(p)
      /\ pc[p] = "waiting" /\ handle[p] \in done[p]
  BY DEF IInv, LocalInv, WaitUnpack
<1>2. /\ call' = call /\ toPost' = toPost /\ toSend' = toSend /\ peer' = peer
      /\ lut' = lut /\ handle' = handle /\ posted' = posted /\ rbuf' = rbuf /\ net' = net
  BY DEF WaitUnpack
<1>3. /\ q \in Proc /\ q \in Pque[p] /\ handle[p] = Request(p, q) /\ Request(p, q).tag = q
      /\ toPost[p] = {} /\ call[p] > 0 /\ call[p] \in 1..MaxCall
  BY <1>1, ExchangeAssumption DEF TypeOK, Loops, Request
<1>4. /\ done' = [done EXCEPT ![p] = @ \ {Request(p, q)}]
      /\ Pque' = [Pque EXCEPT ![p] = @ \ {q}] /\ pc' = [pc EXCEPT ![p] = "exch"]
      /\ mem' = [mem EXCEPT ![p] = [c \in Cell |-> IF c \in Inbound(p, q)
                                                  THEN rbuf[p][q][c] ELSE @[c]]]
  BY <1>3 DEF WaitUnpack
<1>5. /\ pc'[p] = "exch" /\ Pque'[p] = Pque[p] \ {q} /\ done'[p] = done[p] \ {Request(p, q)}
      /\ \A c \in Cell : mem'[p][c] = IF c \in Inbound(p, q) THEN rbuf[p][q][c] ELSE mem[p][c]
      /\ \A r \in Proc \ {p} : /\ pc'[r] = pc[r] /\ Pque'[r] = Pque[r]
                               /\ done'[r] = done[r] /\ mem'[r] = mem[r]
  BY <1>1, <1>4 DEF TypeOK
<1>6. TypeOK'
  <2>1. /\ pc' \in [Proc -> {"compute", "exch", "blocked", "waiting"}]
        /\ Pque' \in [Proc -> SUBSET Proc] /\ done' \in [Proc -> SUBSET Handle]
    BY <1>1, <1>4 DEF TypeOK
  <2>2. mem' \in [Proc -> [Cell -> 0..MaxCall]]
    BY <1>1, <1>3, <1>4 DEF TypeOK
  <2> QED
    BY <2>1, <2>2, <1>1, <1>2 DEF TypeOK, Msg
<1>7. Loops(p)'
  BY <1>1, <1>2, <1>3, <1>5 DEF Loops, Inbound
<1>8. \A s \in Proc : s # q => Request(p, s) # Request(p, q)
  BY DEF Request
<1>9. Requests(p)'
  <2>1. Request(p, q) \notin posted[p]
    BY <1>1, <1>3 DEF Requests
  <2>2. \A h \in posted[p] \union done'[p] : h.tag \in Pque'[p] /\ h.call = call[p]
    <3> SUFFICES ASSUME NEW h \in posted[p] \union done'[p]
                 PROVE  h.tag \in Pque'[p] /\ h.call = call[p]
      OBVIOUS
    <3>1. h.tag \in Pque[p] /\ h.call = call[p] /\ h # Request(p, q) /\ h \in Handle
      <4>1. CASE h \in posted[p]
        BY <4>1, <2>1, <1>1 DEF TypeOK, Requests
      <4>2. CASE h \in done'[p]
        BY <4>2, <1>1, <1>5 DEF TypeOK, Requests
      <4> QED
        BY <4>1, <4>2
    <3>2. h.tag # q
      BY <3>1 DEF Handle, Request
    <3> QED
      BY <3>1, <3>2, <1>5
  <2>3. \A h \in lut[p] : h.tag \in Pque'[p] /\ h.call = call[p]
    BY <1>1, <1>5 DEF Requests
  <2>4. \A s \in Pque'[p] : Request(p, s) \in posted[p] <=> Request(p, s) \notin done'[p]
    BY <1>1, <1>5, <1>8 DEF Requests, Request
  <2>5. \A s \in Pque'[p] : Request(p, s) \in lut[p]
    BY <1>1, <1>5 DEF Requests
  <2> QED
    BY <2>2, <2>3, <2>4, <2>5, <1>2, <1>5 DEF Requests, Request
<1>10. Values(p)'
  <2>1. \A c \in Inbound(p, q) : c \in Cell /\ Owner[c] = q /\ rbuf[p][q][c] = call[p]
    BY <1>1, <1>3, TableCells, PackIsUnpack DEF Values, Inbound
  <2>2. q # p
    BY <1>1, <1>3, NothingForItself DEF Loops, Inbound
  <2>3. \A c \in Cell : Owner[c] = p => mem'[p][c] = call[p]
    BY <2>1, <2>2, <1>1, <1>5 DEF Values
  <2>4. ASSUME NEW s \in Proc, s \notin Pque'[p], NEW c \in Inbound(p, s)
        PROVE  mem'[p][c] = call[p]
    <3>1. c \in Cell /\ Owner[c] = s
      BY <1>3, TableCells, PackIsUnpack DEF Inbound
    <3>2. CASE s = q
      BY <3>1, <3>2, <2>1, <1>5
    <3>3. CASE s # q
      <4>1. c \notin Inbound(p, q)
        BY <3>1, <3>3, <2>1
      <4>2. s \notin Pque[p] /\ s \notin toPost[p]
        BY <2>4, <3>3, <1>3, <1>5
      <4>3. mem[p][c] = call[p]
        BY <4>2, <1>1, <1>3 DEF Values
      <4> QED
        BY <3>1, <4>1, <4>3, <1>5
    <3> QED
      BY <3>2, <3>3
  <2> QED
    BY <2>3, <2>4, <1>1, <1>2, <1>5 DEF Values, Inbound
<1>11. NetInv'
  BY <1>1, <1>2, NetUnchanged DEF Sent, Taken, Request
<1> QED
  BY <1>2, <1>5, <1>6, <1>7, <1>9, <1>10, <1>11, StepOf

\* Returning: only the program counter moves, every loop being done.
LEMMA ReturnIInv ==
  ASSUME IInv, NEW p \in Proc, Return(p) PROVE IInv'
<1>1. /\ TypeOK /\ NetInv /\ Loops(p) /\ Requests(p) /\ Values(p)
      /\ pc[p] = "exch" /\ toPost[p] = {} /\ toSend[p] = {} /\ Pque[p] = {}
  BY DEF IInv, LocalInv, Return
<1>2. /\ call' = call /\ mem' = mem /\ toPost' = toPost /\ toSend' = toSend
      /\ Pque' = Pque /\ peer' = peer /\ lut' = lut /\ handle' = handle
      /\ posted' = posted /\ done' = done /\ rbuf' = rbuf /\ net' = net
  BY DEF Return, local, mpi
<1>3. /\ pc' \in [Proc -> {"compute", "exch", "blocked", "waiting"}] /\ pc'[p] = "compute"
      /\ \A r \in Proc \ {p} : pc'[r] = pc[r]
  BY <1>1 DEF TypeOK, Return
<1>4. TypeOK'
  BY <1>1, <1>2, <1>3 DEF TypeOK, Msg
<1>5. Loops(p)' /\ Requests(p)'
  BY <1>1, <1>2, <1>3 DEF Loops, Requests, Request, Inbound
<1>6. Values(p)'
  BY <1>1, <1>2 DEF Values, Inbound
<1>7. NetInv'
  BY <1>1, <1>2, NetUnchanged DEF Sent, Taken, Request
<1> QED
  BY <1>2, <1>3, <1>4, <1>5, <1>6, <1>7, StepOf

\* The message MPI matches to a request is the one of the request's call: the
\* sender's earlier ones are taken, and so are later ones not yet.
LEMMA MatchIsOfThisCall ==
  ASSUME IInv, NEW p \in Proc, NEW m \in net, NEW h \in posted[p], Matches(m, p, h)
  PROVE  m = Fresh(h.tag, p, call[p]) /\ h = Request(p, h.tag) /\ h.tag \in Proc
<1> DEFINE q == h.tag
<1>1. TypeOK /\ NetInv /\ Loops(p) /\ Requests(p)
  BY DEF IInv, LocalInv
<1>2. /\ q \in Proc /\ q \in Pque[p] /\ h = Request(p, q) /\ q \notin toPost[p]
      /\ Inbound(p, q) # {} /\ call[p] > 0
  <2>1. h \in Handle /\ q \in Pque[p] /\ h.call = call[p]
    BY <1>1 DEF TypeOK, Requests
  <2>2. h = Request(p, q) /\ q \in Proc
    BY <2>1 DEF Handle, Request
  <2>3. q \notin toPost[p] /\ Inbound(p, q) # {}
    BY <2>1, <1>1 DEF Loops
  <2>4. call[p] > 0
    BY <2>1, <1>1 DEF Loops
  <2> QED
    BY <2>1, <2>2, <2>3, <2>4
<1>3. call[p] \in 1..MaxCall /\ call[p] \in Nat /\ m.call \in Nat
  BY <1>1, <1>2, ExchangeAssumption DEF TypeOK
<1>4. /\ m.src = q /\ m.dst = p /\ m.call \in 1..MaxCall
      /\ m = Fresh(q, p, m.call) /\ ~ Taken(p, q, m.call) /\ Sent(q, p, m.call)
  BY <1>1 DEF TypeOK, NetInv, NetSound, Matches
<1>5. m.call >= call[p]
  BY <1>3, <1>4 DEF Taken
<1>6. CASE m.call > call[p]
  <2>1. Transfer(q, p, call[p])
    BY <1>2, <1>3, PackIsUnpack DEF Transfer, Inbound
  <2>2. ~ Taken(p, q, call[p])
    BY <1>2, <1>3 DEF Taken
  <2>3. Sent(q, p, call[p])
    <3>1. call[q] \in Nat
      BY <1>1, <1>2, ExchangeAssumption DEF TypeOK
    <3> QED
      BY <3>1, <1>3, <1>4, <1>6 DEF Sent
  <2>4. Fresh(q, p, call[p]) \in net
    BY <2>1, <2>2, <2>3, <1>1, <1>2, <1>3 DEF NetInv, NetComplete
  <2>5. m.call <= call[p]
    BY <2>4, <1>4 DEF Matches, Fresh, Msg
  <2> QED
    BY <2>5, <1>3, <1>6
<1>7. CASE m.call = call[p]
  BY <1>2, <1>4, <1>7
<1> QED
  BY <1>3, <1>5, <1>6, <1>7

\* Delivering: the request completes, and its buffer holds this call's values.
LEMMA DeliverIInv ==
  ASSUME IInv, NEW p \in Proc, Deliver(p) PROVE IInv'
<1>1. /\ TypeOK /\ NetInv /\ Loops(p) /\ Requests(p) /\ Values(p)
  BY DEF IInv, LocalInv
<1>2. PICK m \in net, h \in posted[p] :
        /\ Matches(m, p, h)
        /\ net' = net \ {m}
        /\ posted' = [posted EXCEPT ![p] = @ \ {h}]
        /\ done' = [done EXCEPT ![p] = @ \union {h}]
        /\ rbuf' = [rbuf EXCEPT ![p][h.tag] =
                      [c \in Cell |-> IF c \in DOMAIN m.data THEN m.data[c] ELSE @[c]]]
  BY DEF Deliver
<1> DEFINE q == h.tag
<1>3. /\ call' = call /\ mem' = mem /\ toPost' = toPost /\ toSend' = toSend
      /\ Pque' = Pque /\ peer' = peer /\ lut' = lut /\ handle' = handle /\ pc' = pc
  BY DEF Deliver, local
<1>4. m = Fresh(q, p, call[p]) /\ h = Request(p, q) /\ q \in Proc
  BY <1>2, MatchIsOfThisCall
<1>5. /\ q \in Pque[p] /\ q \notin toPost[p] /\ call[p] > 0 /\ call[p] \in 1..MaxCall
      /\ h \notin done[p]
  BY <1>1, <1>4, ExchangeAssumption DEF TypeOK, Loops, Requests
<1>6. /\ posted'[p] = posted[p] \ {h} /\ done'[p] = done[p] \union {h}
      /\ \A r \in Proc \ {p} :
           posted'[r] = posted[r] /\ done'[r] = done[r] /\ rbuf'[r] = rbuf[r]
  BY <1>1, <1>2 DEF TypeOK
<1>7. /\ DOMAIN m.data = Inbound(p, q) /\ \A c \in Inbound(p, q) : m.data[c] = call[p]
      /\ Inbound(p, q) \subseteq Cell
  <2>1. m.data = [c \in Pack[Prog[call[p]]][q][p] |-> call[p]]
    BY <1>4 DEF Fresh, Msg
  <2>2. Pack[Prog[call[p]]][q][p] = Inbound(p, q) /\ Inbound(p, q) \subseteq Cell
    BY <1>4, <1>5, PackIsUnpack, TableCells DEF Inbound
  <2> QED
    BY <2>1, <2>2
<1>8. /\ \A c \in Inbound(p, q) : rbuf'[p][q][c] = call[p]
      /\ \A s \in Proc \ {q} : rbuf'[p][s] = rbuf[p][s]
  BY <1>1, <1>2, <1>4, <1>7 DEF TypeOK
<1>9. TypeOK'
  <2>1. posted' \in [Proc -> SUBSET Handle] /\ done' \in [Proc -> SUBSET Handle]
    BY <1>1, <1>2 DEF TypeOK
  <2>2. rbuf' \in [Proc -> [Proc -> [Cell -> 0..MaxCall]]]
    <3>1. [c \in Cell |-> IF c \in DOMAIN m.data THEN m.data[c] ELSE rbuf[p][q][c]]
            \in [Cell -> 0..MaxCall]
      BY <1>1, <1>4, <1>5, <1>7, ExchangeAssumption DEF TypeOK
    <3> QED
      BY <3>1, <1>1, <1>2, <1>4 DEF TypeOK
  <2> QED
    BY <2>1, <2>2, <1>1, <1>2, <1>3 DEF TypeOK, Msg
<1>10. Loops(p)'
  BY <1>1, <1>3 DEF Loops, Request, Inbound
<1>11. Requests(p)'
  <2>1. \A s \in Pque[p] : Request(p, s) \in posted'[p] <=> Request(p, s) \notin done'[p]
    BY <1>1, <1>4, <1>5, <1>6 DEF Requests
  <2>2. \A g \in posted'[p] : g.tag \in Pque[p] /\ g.call = call[p]
    BY <1>1, <1>6 DEF Requests
  <2>3. \A g \in done'[p] : g.tag \in Pque[p] /\ g.call = call[p]
    BY <1>1, <1>6 DEF Requests
  <2> QED
    BY <2>1, <2>2, <2>3, <1>1, <1>3 DEF Requests, Request
<1>12. Values(p)'
  <2>1. ASSUME NEW g \in done'[p], NEW c \in Inbound(p, g.tag)
        PROVE  rbuf'[p][g.tag][c] = call[p]
    <3>1. CASE g.tag = q
      BY <2>1, <3>1, <1>8
    <3>2. CASE g.tag # q
      <4>1. g \in done[p] /\ g.tag \in Proc
        BY <2>1, <3>2, <1>1, <1>6 DEF TypeOK, Handle
      <4> QED
        BY <4>1, <2>1, <3>2, <1>1, <1>8 DEF Values
    <3> QED
      BY <3>1, <3>2
  <2> QED
    BY <2>1, <1>1, <1>3 DEF Values, Inbound
<1>13. ASSUME NEW r \in Proc, NEW s \in Proc, NEW k \in 1..MaxCall
       PROVE  /\ Sent(s, r, k)' <=> Sent(s, r, k)
              /\ Taken(r, s, k)' <=> Taken(r, s, k) \/ (r = p /\ s = q /\ k = call[p])
  <2>1. Sent(s, r, k)' <=> Sent(s, r, k)
    BY <1>3 DEF Sent
  <2>2. CASE r = p
    <3>1. Request(p, s) = h <=> s = q
      BY <1>4 DEF Request
    <3> QED
      BY <2>1, <2>2, <3>1, <1>3, <1>4, <1>5, <1>6 DEF Taken, Request
  <2>3. CASE r # p
    BY <2>1, <2>3, <1>3, <1>6 DEF Taken, Request
  <2> QED
    BY <2>2, <2>3
<1>14. NetInv'
  <2>1. m.src = q /\ m.dst = p /\ m.call = call[p]
    BY <1>4 DEF Fresh, Msg
  <2>2. NetSound'
    <3> SUFFICES ASSUME NEW n \in net, n # m
                 PROVE  /\ Transfer(n.src, n.dst, n.call)
                        /\ Sent(n.src, n.dst, n.call)' /\ ~ Taken(n.dst, n.src, n.call)'
                        /\ n = Fresh(n.src, n.dst, n.call)
      BY <1>2 DEF NetSound, Transfer, Fresh, Msg, Sent, Taken, Request
    <3>1. /\ n.src \in Proc /\ n.dst \in Proc /\ n.call \in 1..MaxCall
          /\ Transfer(n.src, n.dst, n.call) /\ n = Fresh(n.src, n.dst, n.call)
          /\ Sent(n.src, n.dst, n.call) /\ ~ Taken(n.dst, n.src, n.call)
      BY <1>1 DEF TypeOK, NetInv, NetSound
    <3>2. ~ (n.dst = p /\ n.src = q /\ n.call = call[p])
      BY <3>1, <1>4
    <3> QED
      BY <3>1, <3>2, <1>13
  <2>3. NetComplete'
    <3> SUFFICES ASSUME NEW r \in Proc, NEW s \in Proc, NEW k \in 1..MaxCall,
                        Transfer(s, r, k), Sent(s, r, k)', ~ Taken(r, s, k)'
                 PROVE  Fresh(s, r, k) \in net'
      BY DEF NetComplete, Transfer, Fresh, Msg, Sent, Taken, Request
    <3>1. Fresh(s, r, k) \in net /\ ~ (r = p /\ s = q /\ k = call[p])
      BY <1>1, <1>13 DEF NetInv, NetComplete
    <3>2. Fresh(s, r, k) # m
      BY <3>1, <2>1 DEF Fresh, Msg
    <3> QED
      BY <3>1, <3>2, <1>2
  <2>4. NetCausal'
    <3> SUFFICES ASSUME NEW r \in Proc, NEW s \in Proc, NEW k \in 1..MaxCall,
                        Transfer(s, r, k), Taken(r, s, k)'
                 PROVE  Sent(s, r, k)'
      BY DEF NetCausal, Transfer, Sent, Taken, Request
    <3>1. Sent(q, p, call[p])
      BY <2>1, <1>1 DEF NetInv, NetSound
    <3> QED
      BY <3>1, <1>1, <1>13 DEF NetInv, NetCausal
  <2> QED
    BY <2>2, <2>3, <2>4 DEF NetInv
<1> QED
  BY <1>3, <1>6, <1>9, <1>10, <1>11, <1>12, <1>14, StepOf

\* The invariant is inductive.
THEOREM Invariance == Spec => []IInv
<1>1. IInv /\ [Next]_vars => IInv'
  <2> SUFFICES ASSUME IInv, [Next]_vars PROVE IInv'
    OBVIOUS
  <2>1. CASE UNCHANGED vars
    <3>1. /\ pc' = pc /\ call' = call /\ mem' = mem /\ toPost' = toPost /\ toSend' = toSend
          /\ Pque' = Pque /\ peer' = peer /\ lut' = lut /\ handle' = handle
          /\ posted' = posted /\ done' = done /\ rbuf' = rbuf /\ net' = net
      BY <2>1 DEF vars, local, mpi
    <3>2. TypeOK'
      BY <3>1 DEF IInv, TypeOK, Msg
    <3>3. NetInv'
      BY <3>1, NetUnchanged DEF IInv, Sent, Taken, Request
    <3>4. LocalInv'
      <4>1. ASSUME NEW r \in Proc PROVE Loops(r)' /\ Requests(r)' /\ Values(r)'
        BY <3>1, Bystander DEF IInv, LocalInv
      <4> QED
        BY <4>1 DEF LocalInv
    <3> QED
      BY <3>2, <3>3, <3>4 DEF IInv
  <2>2. CASE Finished
    BY <2>1, <2>2 DEF Finished
  <2>3. ASSUME NEW p \in Proc, Step(p) PROVE IInv'
    BY <2>3, EnterIInv, PostRecvIInv, SendIInv, FindWaitHIInv, SendReturnsIInv,
       WaitUnpackIInv, ReturnIInv DEF Step
  <2>4. ASSUME NEW p \in Proc, Deliver(p) PROVE IInv'
    BY <2>4, DeliverIInv
  <2> QED
    BY <2>1, <2>2, <2>3, <2>4 DEF Next
<1> QED
  BY <1>1, InitIInv, PTL DEF Spec

\* Type correctness of the exchange.
THEOREM TypeCorrect == Spec => []TypeOK
BY Invariance, PTL DEF IInv

\* After a call every ghost cell holds its owner's value of that very call
\* (exch_sten.c:66-69), although processors may be whole calls apart and all
\* messages of a sender carry the same tag.
THEOREM GhostsAreCurrent == Spec => []GhostsCurrent
<1>1. IInv => GhostsCurrent
  <2> SUFFICES ASSUME IInv, NEW p \in Proc, pc[p] = "compute", call[p] > 0,
                      NEW q \in Proc, NEW c \in Inbound(p, q)
               PROVE  mem[p][c] = call[p]
    BY DEF GhostsCurrent
  <2>1. Loops(p) /\ Values(p)
    BY DEF IInv, LocalInv
  <2> QED
    BY <2>1 DEF Loops, Values
<1> QED
  BY <1>1, Invariance, PTL

\* rslMPIFindWaitH, which looks only at the tag, finds the handle of the
\* receive waited for, whatever else the processor has posted.
THEOREM WaitsFindTheirReceives == Spec => []WaitFindsItsReceive
<1>1. IInv => WaitFindsItsReceive
  <2> SUFFICES ASSUME IInv, NEW p \in Proc
               PROVE  /\ \A h1, h2 \in lut[p] : h1.tag = h2.tag => h1 = h2
                      /\ pc[p] = "waiting" => handle[p] = Request(p, peer[p])
    BY DEF WaitFindsItsReceive
  <2>1. TypeOK /\ Loops(p) /\ Requests(p)
    BY DEF IInv, LocalInv
  <2>2. ASSUME NEW h1 \in lut[p], NEW h2 \in lut[p], h1.tag = h2.tag PROVE h1 = h2
    <3>1. h1 \in Handle /\ h2 \in Handle /\ h1.call = call[p] /\ h2.call = call[p]
      BY <2>1 DEF TypeOK, Requests
    <3> QED
      BY <2>2, <3>1 DEF Handle
  <2> QED
    BY <2>1, <2>2 DEF Loops
<1> QED
  BY <1>1, Invariance, PTL

\* A message that can match a request has exactly the cells the request's call
\* unpacks: no truncation, and no reading beyond what was received.
THEOREM MessagesFitReceives == Spec => []MessageFitsReceive
<1>1. IInv => MessageFitsReceive
  <2> SUFFICES ASSUME IInv, NEW p \in Proc, NEW m \in net, NEW h \in posted[p],
                      Matches(m, p, h)
               PROVE  DOMAIN m.data = Unpack[Prog[h.call]][p][h.tag]
    BY DEF MessageFitsReceive
  <2>1. m = Fresh(h.tag, p, call[p]) /\ h = Request(p, h.tag) /\ h.tag \in Proc
    BY MatchIsOfThisCall
  <2>2. h.call = call[p] /\ call[p] \in 1..MaxCall
    BY <2>1, ExchangeAssumption DEF IInv, TypeOK, Request, Handle
  <2>3. DOMAIN m.data = Pack[Prog[call[p]]][h.tag][p]
    BY <2>1 DEF Fresh, Msg
  <2> QED
    BY <2>1, <2>2, <2>3, PackIsUnpack
<1> QED
  BY <1>1, Invariance, PTL

\* A step that leaves alone what the abstract exchange sees is a stutter.
LEMMA Stutter ==
  ASSUME call' = call, mem' = mem, \A r \in Proc : Missing(r)' = Missing(r)
  PROVE  UNCHANGED Halo!vars
<1>1. missingBar' = missingBar
  BY DEF missingBar, Missing, Inbound
<1> QED
  BY <1>1 DEF Halo!vars

\* Entering a call is entering the abstract one.
LEMMA EnterHalo == ASSUME IInv, NEW p \in Proc, Enter(p) PROVE Halo!Enter(p)
<1>1. /\ TypeOK /\ Loops(p) /\ pc[p] = "compute" /\ call[p] < MaxCall
      /\ call' = [call EXCEPT ![p] = @ + 1]
      /\ mem' = [mem EXCEPT ![p] =
                   [c \in Cell |-> IF Owner[c] = p THEN call[p] + 1 ELSE @[c]]]
      /\ Pque' = Pque
  BY DEF IInv, LocalInv, Enter
<1>2. /\ pc'[p] = "exch" /\ toPost'[p] = Proc \ {p} /\ call'[p] = call[p] + 1
      /\ call[p] + 1 \in 1..MaxCall
      /\ \A r \in Proc \ {p} :
           pc'[r] = pc[r] /\ toPost'[r] = toPost[r] /\ call'[r] = call[r]
  BY <1>1, ExchangeAssumption DEF TypeOK, Enter
<1> DEFINE need == {q \in Proc : Unpack[Prog[call[p] + 1]][p][q] # {}}
<1>3. Missing(p)' = need
  <2>1. Pque'[p] = {}
    BY <1>1 DEF Loops
  <2>2. Unpack[Prog[call[p] + 1]][p][p] = {}
    BY <1>2, NothingForItself
  <2> QED
    BY <2>1, <2>2, <1>2 DEF Missing, Inbound
<1>4. missingBar' = [missingBar EXCEPT ![p] = need]
  <2>1. \A r \in Proc \ {p} : Missing(r)' = Missing(r)
    BY <1>1, <1>2 DEF Missing, Inbound
  <2> QED
    BY <2>1, <1>3 DEF missingBar, Missing, Inbound
<1>5. missingBar[p] = {}
  BY <1>1 DEF missingBar, Missing
<1>6. [k \in 1..MaxCall |-> Unpack[Prog[k]]][call[p] + 1] = Unpack[Prog[call[p] + 1]]
  BY <1>2
<1> QED
  BY <1>1, <1>4, <1>5, <1>6 DEF Halo!Enter

\* Unpacking what a neighbour sent is taking its cells directly.
LEMMA WaitUnpackHalo ==
  ASSUME IInv, NEW p \in Proc, WaitUnpack(p) PROVE Halo!Take(p, peer[p])
<1> DEFINE q == peer[p]
<1>1. /\ TypeOK /\ NetInv /\ Loops(p) /\ Requests(p) /\ Values(p)
      /\ pc[p] = "waiting" /\ handle[p] \in done[p]
      /\ call' = call /\ toPost' = toPost
      /\ Pque' = [Pque EXCEPT ![p] = @ \ {q}] /\ pc' = [pc EXCEPT ![p] = "exch"]
      /\ mem' = [mem EXCEPT ![p] = [c \in Cell |-> IF c \in Inbound(p, q)
                                                  THEN rbuf[p][q][c] ELSE @[c]]]
  BY DEF IInv, LocalInv, WaitUnpack
<1>2. /\ q \in Proc /\ q \in Pque[p] /\ Request(p, q) \in done[p] /\ Request(p, q).tag = q
      /\ toPost[p] = {} /\ call[p] > 0 /\ call[p] \in 1..MaxCall /\ Inbound(p, q) # {}
  BY <1>1, ExchangeAssumption DEF TypeOK, Loops, Request
<1>3. call[q] >= call[p]
  <2>1. Transfer(q, p, call[p]) /\ Taken(p, q, call[p])
    BY <1>1, <1>2, PackIsUnpack DEF Transfer, Taken, Inbound, Requests
  <2> QED
    BY <2>1, <1>1, <1>2, ExchangeAssumption DEF NetInv, NetCausal, Sent, TypeOK
<1>4. mem' = [mem EXCEPT ![p] = [c \in Cell |-> IF c \in Inbound(p, q)
                                               THEN call[p] ELSE @[c]]]
  <2>1. \A c \in Inbound(p, q) : rbuf[p][q][c] = call[p]
    BY <1>1, <1>2 DEF Values
  <2> QED
    BY <2>1, <1>1
<1>5. missingBar[p] = Pque[p]
  BY <1>1, <1>2 DEF missingBar, Missing
<1>6. missingBar' = [missingBar EXCEPT ![p] = @ \ {q}]
  <2>1. Missing(p)' = Missing(p) \ {q}
    <3>1. pc'[p] = "exch" /\ Pque'[p] = Pque[p] \ {q} /\ toPost'[p] = {}
      BY <1>1, <1>2 DEF TypeOK
    <3> QED
      BY <3>1, <1>1, <1>2 DEF Missing
  <2>2. \A r \in Proc \ {p} : Missing(r)' = Missing(r)
    BY <1>1 DEF TypeOK, Missing, Inbound
  <2> QED
    BY <2>1, <2>2 DEF missingBar, Missing, Inbound
<1>7. [k \in 1..MaxCall |-> Unpack[Prog[k]]][call[p]][p][q] = Inbound(p, q)
  BY <1>2 DEF Inbound
<1> QED
  BY <1>1, <1>2, <1>3, <1>4, <1>5, <1>6, <1>7 DEF Halo!Take

\* Posting, sending, waiting and the messages are invisible.
LEMMA OthersHalo ==
  ASSUME IInv, NEW p \in Proc,
         \/ \E q \in Proc : PostRecv(p, q) \/ Send(p, q) \/ FindWaitH(p, q)
         \/ SendReturns(p) \/ Return(p) \/ Deliver(p)
  PROVE  UNCHANGED Halo!vars
<1>1. TypeOK /\ Loops(p)
  BY DEF IInv, LocalInv
<1>2. ASSUME call' = call, mem' = mem, toPost' = toPost, Pque' = Pque,
             \A r \in Proc : pc'[r] = "compute" <=> pc[r] = "compute"
      PROVE  UNCHANGED Halo!vars
  BY <1>2, Stutter DEF Missing, Inbound
<1>3. ASSUME NEW q \in Proc, PostRecv(p, q) PROVE UNCHANGED Halo!vars
  <2>1. call' = call /\ mem' = mem /\ pc' = pc /\ pc[p] = "exch" /\ q \in toPost[p]
    BY <1>3 DEF PostRecv
  <2>2. /\ toPost'[p] = toPost[p] \ {q} /\ \A r \in Proc \ {p} : toPost'[r] = toPost[r]
    BY <1>1, <1>3 DEF TypeOK, PostRecv
  <2>3. /\ Pque'[p] = IF Inbound(p, q) # {} THEN Pque[p] \union {q} ELSE Pque[p]
        /\ \A r \in Proc \ {p} : Pque'[r] = Pque[r]
    BY <1>1, <1>3 DEF TypeOK, PostRecv
  <2>4. Missing(p)' = Missing(p)
    <3>1. Missing(p) = Pque[p] \union {s \in toPost[p] : Inbound(p, s) # {}}
      BY <2>1 DEF Missing
    <3>2. Missing(p)' = Pque'[p] \union {s \in toPost'[p] : Inbound(p, s) # {}}
      BY <2>1 DEF Missing, Inbound
    <3> QED
      BY <3>1, <3>2, <2>1, <2>2, <2>3
  <2>5. ASSUME NEW r \in Proc PROVE Missing(r)' = Missing(r)
    <3>1. CASE r = p
      BY <2>4, <3>1
    <3>2. CASE r # p
      BY <3>2, <2>1, <2>2, <2>3 DEF Missing, Inbound
    <3> QED
      BY <3>1, <3>2
  <2> QED
    BY <2>1, <2>5, Stutter
<1>4. ASSUME NEW q \in Proc, Send(p, q) PROVE UNCHANGED Halo!vars
  <2>1. \A r \in Proc : pc'[r] = "compute" <=> pc[r] = "compute"
    <3>1. pc[p] = "exch" /\ pc' \in {pc, [pc EXCEPT ![p] = "blocked"]}
      BY <1>4 DEF Send
    <3> QED
      BY <3>1, <1>1 DEF TypeOK
  <2> QED
    BY <2>1, <1>2, <1>4 DEF Send
<1>5. ASSUME NEW q \in Proc, FindWaitH(p, q) PROVE UNCHANGED Halo!vars
  <2>1. \A r \in Proc : pc'[r] = "compute" <=> pc[r] = "compute"
    BY <1>1, <1>5 DEF TypeOK, FindWaitH
  <2> QED
    BY <2>1, <1>2, <1>5 DEF FindWaitH, local
<1>6. ASSUME SendReturns(p) PROVE UNCHANGED Halo!vars
  <2>1. \A r \in Proc : pc'[r] = "compute" <=> pc[r] = "compute"
    BY <1>1, <1>6 DEF TypeOK, SendReturns
  <2> QED
    BY <2>1, <1>2, <1>6 DEF SendReturns, local
<1>7. ASSUME Deliver(p) PROVE UNCHANGED Halo!vars
  BY <1>2, <1>7 DEF Deliver, local
<1>8. ASSUME Return(p) PROVE UNCHANGED Halo!vars
  <2>1. /\ call' = call /\ mem' = mem /\ toPost' = toPost /\ Pque' = Pque
        /\ toPost[p] = {} /\ Pque[p] = {} /\ \A r \in Proc \ {p} : pc'[r] = pc[r]
    BY <1>1, <1>8 DEF TypeOK, Return, local
  <2>2. ASSUME NEW r \in Proc PROVE Missing(r)' = Missing(r)
    <3>1. CASE r = p
      BY <2>1, <3>1 DEF Missing
    <3>2. CASE r # p
      BY <2>1, <3>2 DEF Missing, Inbound
    <3> QED
      BY <3>1, <3>2
  <2> QED
    BY <2>1, <2>2, Stutter
<1> QED
  BY <1>3, <1>4, <1>5, <1>6, <1>7, <1>8

\* RSL_EXCH_STENCIL implements the exchange without messages, in which ghost
\* cells are read off the neighbours directly.
THEOREM ImplementsHalo == Spec => HaloSpec
<1>1. Init => Halo!Init
  <2>1. Init => missingBar = [p \in Proc |-> {}]
    BY DEF Init, missingBar, Missing
  <2> QED
    BY <2>1 DEF Init, Halo!Init
<1>2. IInv /\ [Next]_vars => [Halo!Next]_(Halo!vars)
  <2> SUFFICES ASSUME IInv, [Next]_vars PROVE [Halo!Next]_(Halo!vars)
    OBVIOUS
  <2>1. CASE UNCHANGED vars
    BY <2>1, Stutter DEF vars, local, Missing, Inbound
  <2>2. CASE Finished
    BY <2>1, <2>2 DEF Finished
  <2>3. ASSUME NEW p \in Proc, Step(p) \/ Deliver(p) PROVE [Halo!Next]_(Halo!vars)
    <3>1. CASE Enter(p)
      BY <3>1, EnterHalo DEF Halo!Next
    <3>2. CASE WaitUnpack(p)
      <4>1. peer[p] \in Proc
        BY DEF IInv, TypeOK
      <4> QED
        BY <3>2, <4>1, WaitUnpackHalo DEF Halo!Next
    <3>3. CASE ~ Enter(p) /\ ~ WaitUnpack(p)
      BY <2>3, <3>3, OthersHalo DEF Step
    <3> QED
      BY <3>1, <3>2, <3>3
  <2> QED
    BY <2>1, <2>2, <2>3 DEF Next
<1> QED
  BY <1>1, <1>2, Invariance, PTL DEF Spec, HaloSpec, Halo!Spec
===============================================================================
