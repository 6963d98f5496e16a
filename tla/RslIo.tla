-------------------------------- MODULE RslIo --------------------------------
(***************************************************************************)
(* RSL_READ and RSL_WRITE: one record of a Fortran unit is distributed     *)
(* over the processors of a domain, or collected from them, through the    *)
(* monitor (rsl_io.c, rsl_ioserve.c, as built by makefile.linux, with      *)
(* RSL_SYNCIO).  All processors make the same calls in the same order, but *)
(* each at its own pace: a processor that got its share of a record goes   *)
(* on while the monitor still serves the others.                           *)
(*                                                                         *)
(* Each message is counted in elements.  Its two ends name the elements    *)
(* and their order independently, each by its own loops; an element is     *)
(* modelled as its place in the array and the call it was made for.        *)
(***************************************************************************)
EXTENDS Integers, Sequences, FiniteSets, SequencesExt

CONSTANTS
  NProc,          \* rsl_nproc_all
  Rows, Cols,     \* len_m and len_n of the domain
  Setups          \* how models use the package, see SetupOK

VARIABLES
  setup,          \* which of them this one does; it stays as it is
  prog,           \* the calls made so far: those of whoever is ahead
  call,           \* call[p]: the number of p's call, or of its next one
  pc,             \* pc[p]: where p is in it
  field,          \* field[p]: the elements in p's local array, by place
  pbuf,           \* pbuf[p]: its message, packed or to be unpacked
  loopP,          \* the monitor's loop variable P
  gbuf,           \* the monitor's rbuf or wbuf: a whole record
  net,            \* net[p][q]: messages from p to q, in the order sent
  file,           \* the records in the unit
  wlist,          \* write_buffer_head: records kept until they are flushed
  user            \* the array of the last internal write on the monitor

vars == <<setup, prog, call, pc, field, pbuf, loopP, gbuf, net, file, wlist, user>>

Owner        == setup.owner    \* Owner[<<j, i>>]: domain[].P of a point
Regular      == setup.regular  \* regular_decomp: RSL_SET_REGULAR_DECOMP was called
BufferOutput == setup.buffer   \* rsl_buffer_output
Calls        == setup.calls    \* the calls the model makes, see Call
MaxCall      == setup.max      \* bound: how many it makes

Proc    == 0..(NProc - 1)
Monitor == 0                             \* RSL_C_MONITOR_PROC, with MON_LOW = 1
Worker  == Proc \ {Monitor}
Point   == (0..Cols - 1) \X (0..Rows - 1)  \* <<jg, ig>>

Layout == {"IJ", "JI", "IJK", "JIK", "KIJ", "IKJ"}

\* A call of the model: op with, for a field, the layout of its array and the
\* sizes of its record (glen, by dimension).
Call == [op : {"read", "write"}, layout : Layout, internal : BOOLEAN,
         m : 1..Rows, n : 1..Cols, k : Nat \ {0}]
        \union [op : {"header", "flush"}]

\* The places of a call's record.
Cells(c) == {<<pt[1], pt[2], k>> : pt \in (0..c.n - 1) \X (0..c.m - 1), k \in 0..c.k - 1}

\* Those of a whole domain: RSL_READ unpacks all of a processor's points.
Padded(c) == {<<pt[1], pt[2], k>> : pt \in Point, k \in 0..c.k - 1}

Own(p, cells) == {cell \in cells : Owner[<<cell[1], cell[2]>>] = p}

\* With a regular decomposition the points of a processor that a record has
\* are a rectangle: patchmap and MAPPING (lb_alg.c) cut strips into patches.
Rectangle(pts) == \A a, b \in pts : <<a[1], b[2]>> \in pts

SetupOK(s) ==
  /\ s.owner \in [Point -> Proc]
  /\ s.regular \in BOOLEAN /\ s.buffer \in BOOLEAN
  /\ s.regular => \A p \in Proc : Rectangle({pt \in Point : s.owner[pt] = p})
  /\ \A c \in s.calls : c \in Call
  /\ s.max \in Nat

ASSUME IoAssumption ==
  /\ NProc \in Nat \ {0, 1}
  /\ Rows \in Nat \ {0} /\ Cols \in Nat \ {0}
  /\ \A s \in Setups : SetupOK(s)

Junk == <<<<-1, -1, -1>>, 0>>           \* what was there before, of no call
Elem(cell, n) == <<cell, n>>             \* what call n is to move at a place
Whole(c, n) == [cell \in Cells(c) |-> Elem(cell, n)]

AllCells == UNION {Padded(c) : c \in {d \in Calls : d.op \in {"read", "write"}}}

Init ==
  /\ setup \in Setups
  /\ prog = <<>>
  /\ call = [p \in Proc |-> 1]
  /\ pc = [p \in Proc |-> "model"]
  /\ field = [p \in Proc |-> [cell \in Own(p, AllCells) |-> Junk]]
  /\ pbuf = [p \in Proc |-> <<>>]
  /\ loopP = 0
  /\ gbuf = <<>>
  /\ net = [p \in Proc |-> [q \in Proc |-> <<>>]]
  /\ file = <<>> /\ wlist = <<>> /\ user = <<>>

Now(p) == prog[call[p]]

-------------------------------------------------------------------------------
(* The order of elements in a message *)

\* The cells in increasing order of a tuple of three coordinates.
Before(a, b) == \/ a[1] < b[1]
                \/ a[1] = b[1] /\ a[2] < b[2]
                \/ a[1] = b[1] /\ a[2] = b[2] /\ a[3] < b[3]
Ordered(cells, Key(_)) ==
  [n \in 1..Cardinality(cells) |->
     CHOOSE x \in cells : Cardinality({y \in cells : Before(Key(y), Key(x))}) = n - 1]

PointMajor(cell) == cell                       \* for jg, for ig, for k
LevelMajor(cell) == <<cell[1], cell[3], cell[2]>>   \* for jg, for k, for ig

\* The loops over is_write..ie_write and js_write..je_write in RSL_WRITE.
RegularPack(layout, cells) ==
  IF layout = "IJK" THEN Ordered(cells, LevelMajor) ELSE Ordered(cells, PointMajor)

\* The same in handle_write_request.
RegularUnpack(layout, cells) ==
  IF layout \in {"IJK", "JIK"} THEN Ordered(cells, LevelMajor)
                               ELSE Ordered(cells, PointMajor)

\* The elements of p's message about a written record, as p packs it and as
\* the monitor unpacks it, and those of its share of a record that is read.
PackOrder(c, p) ==
  IF Regular THEN RegularPack(c.layout, Own(p, Cells(c)))
             ELSE Ordered(Own(p, Cells(c)), PointMajor)
UnpackOrderLevels(c, p) == Ordered(Own(p, Cells(c)), LevelMajor)   \* Mutant of UnpackOrder
UnpackOrder(c, p) ==
  IF Regular THEN RegularUnpack(c.layout, Own(p, Cells(c)))
             ELSE Ordered(Own(p, Cells(c)), PointMajor)
ShareOrder(c, p) == Ordered(Own(p, Padded(c)), PointMajor)

\* memory after the elements of a message have been copied to their places.
Unpacked(memory, order, elems) ==
  [cell \in DOMAIN memory |->
     IF \E x \in DOMAIN order : order[x] = cell
     THEN elems[CHOOSE x \in DOMAIN order : order[x] = cell] ELSE memory[cell]]

Packed(memory, order) == [x \in DOMAIN order |-> memory[order[x]]]

-------------------------------------------------------------------------------
(* Messages *)

\* The tag of a message has its kind and its sender; what it is, its length
\* and its call are not in the tag.
Msg(kind, what, n, body) == [kind |-> kind, what |-> what, call |-> n, body |-> body]

\* MPI_Send: the message is under way, the call returns when MPI has it.
Post(p, q, m) == net' = [net EXCEPT ![p][q] = Append(@, m)]

\* MPI_Recv from the tag (kind, q): the first such message of q.
FirstOf(q, p, kind) ==
  CHOOSE x \in DOMAIN net[q][p] :
    /\ net[q][p][x].kind = kind
    /\ \A y \in DOMAIN net[q][p] : y < x => net[q][p][y].kind # kind
Ready(q, p, kind) == \E x \in DOMAIN net[q][p] : net[q][p][x].kind = kind
Received(q, p, kind) == net[q][p][FirstOf(q, p, kind)]
Take(q, p, kind) ==
  /\ Ready(q, p, kind)
  /\ net' = [net EXCEPT ![q][p] = RemoveAt(@, FirstOf(q, p, kind))]

-------------------------------------------------------------------------------
(* Calls and returns *)

\* p makes call c: the next one of the program, which whoever is ahead picks.
Makes(p, c) ==
  /\ pc[p] = "model" /\ call[p] <= MaxCall
  /\ \/ call[p] <= Len(prog) /\ c = prog[call[p]] /\ prog' = prog
     \/ call[p] > Len(prog) /\ prog' = Append(prog, c)
  /\ setup' = setup

Goes(p, where) == pc' = [pc EXCEPT ![p] = where]
Returns(p) == Goes(p, "model") /\ call' = [call EXCEPT ![p] = @ + 1]

\* RSL_READ up to the first message; on the monitor, handle_read_request up
\* to its loop: the record is read, and what lies beyond it is not defined.
CallRead(p) == \E c \in Calls :
  /\ c.op = "read" /\ Makes(p, c)
  /\ IF p = Monitor
     THEN /\ gbuf' = [cell \in Padded(c) |-> IF cell \in Cells(c) THEN Elem(cell, call[p])
                                                                  ELSE Junk]
          /\ loopP' = 0
          /\ Goes(p, "loop")
     ELSE Goes(p, "resp") /\ UNCHANGED <<gbuf, loopP>>
  /\ UNCHANGED <<call, field, pbuf, net, file, wlist, user>>

\* Mutant of CallWrite: the array is packed as it was before the model's last
\* changes to it.
CallWriteStale(p) == \E c \in Calls :
  /\ c.op = "write" /\ Makes(p, c)
  /\ field' = [field EXCEPT ![p] =
                 [cell \in DOMAIN @ |-> IF cell \in Cells(c) THEN Elem(cell, call[p]) ELSE @[cell]]]
  /\ pbuf' = [pbuf EXCEPT ![p] = Packed(field[p], PackOrder(c, p))]
  /\ IF p = Monitor
     THEN gbuf' = [cell \in Cells(c) |-> Junk] /\ loopP' = 0 /\ Goes(p, "loop")
     ELSE Goes(p, "go") /\ UNCHANGED <<gbuf, loopP>>
  /\ UNCHANGED <<call, net, file, wlist, user>>

\* The model has computed its array anew; RSL_WRITE packs p's part of it.
CallWrite(p) == \E c \in Calls :
  /\ c.op = "write" /\ Makes(p, c)
  /\ field' = [field EXCEPT ![p] =
                 [cell \in DOMAIN @ |-> IF cell \in Cells(c) THEN Elem(cell, call[p]) ELSE @[cell]]]
  /\ pbuf' = [pbuf EXCEPT ![p] = Packed(field'[p], PackOrder(c, p))]
  /\ IF p = Monitor
     THEN gbuf' = [cell \in Cells(c) |-> Junk] /\ loopP' = 0 /\ Goes(p, "loop")
     ELSE Goes(p, "go") /\ UNCHANGED <<gbuf, loopP>>
  /\ UNCHANGED <<call, net, file, wlist, user>>

\* send_to_output_device now, or a new write_buffer_tail.
Output(record) ==
  IF BufferOutput THEN wlist' = Append(wlist, record) /\ file' = file
                  ELSE file' = Append(file, record) /\ wlist' = wlist

\* RSL_WRITE_1D_DATA and the headers of MM5V3 records: only the monitor acts.
WriteHeader(p) == \E c \in Calls :
  /\ c.op = "header" /\ Makes(p, c)
  /\ IF p = Monitor THEN Output([call |-> call[p], data |-> <<>>])
                    ELSE UNCHANGED <<file, wlist>>
  /\ Returns(p)
  /\ UNCHANGED <<field, pbuf, loopP, gbuf, net, user>>

\* Mutant of Flush: the last record of the list is taken for its end.
FlushButTail(p) == \E c \in Calls :
  /\ c.op = "flush" /\ Makes(p, c)
  /\ IF p = Monitor /\ BufferOutput /\ wlist # <<>>
     THEN file' = file \o Front(wlist) /\ wlist' = <<>>
     ELSE UNCHANGED <<file, wlist>>
  /\ Returns(p)
  /\ UNCHANGED <<field, pbuf, loopP, gbuf, net, user>>

\* RSL_OUTPUT_BUFFER_WRITE, which OUTTAP calls after its last record.
Flush(p) == \E c \in Calls :
  /\ c.op = "flush" /\ Makes(p, c)
  /\ file' = IF p = Monitor /\ BufferOutput THEN file \o wlist ELSE file
  /\ wlist' = IF p = Monitor THEN <<>> ELSE wlist
  /\ Returns(p)
  /\ UNCHANGED <<field, pbuf, loopP, gbuf, net, user>>

-------------------------------------------------------------------------------
(* The processors that are not the monitor *)

\* The header of the answer to a read says how much is to follow.
RecvResp(p) ==
  /\ p # Monitor /\ pc[p] = "resp"
  /\ Take(Monitor, p, "read")
  /\ Goes(p, "share")
  /\ UNCHANGED <<setup, prog, call, field, pbuf, loopP, gbuf, file, wlist, user>>

\* Mutant of RecvShare: only the points that the record has are unpacked.
RecvShareGlen(p) ==
  /\ p # Monitor /\ pc[p] = "share"
  /\ Take(Monitor, p, "read")
  /\ field' = [field EXCEPT ![p] =
                 Unpacked(@, Ordered(Own(p, Cells(Now(p))), PointMajor),
                          Received(Monitor, p, "read").body)]
  /\ Returns(p)
  /\ UNCHANGED <<setup, prog, pbuf, loopP, gbuf, file, wlist, user>>

\* The share itself, which RSL_READ unpacks and returns.
RecvShare(p) ==
  /\ p # Monitor /\ pc[p] = "share"
  /\ Take(Monitor, p, "read")
  /\ field' = [field EXCEPT ![p] =
                 Unpacked(@, ShareOrder(Now(p), p), Received(Monitor, p, "read").body)]
  /\ Returns(p)
  /\ UNCHANGED <<setup, prog, pbuf, loopP, gbuf, file, wlist, user>>

\* Mutant of RecvGo: nobody waits for the go-ahead, as without RSL_SYNCIO.
RecvGoNot(p) ==
  /\ p # Monitor /\ pc[p] = "go"
  /\ Goes(p, "data")
  /\ UNCHANGED <<setup, prog, call, field, pbuf, loopP, gbuf, net, file, wlist, user>>

\* The monitor's go-ahead for a write.
RecvGo(p) ==
  /\ p # Monitor /\ pc[p] = "go"
  /\ Take(Monitor, p, "write")
  /\ Goes(p, "data")
  /\ UNCHANGED <<setup, prog, call, field, pbuf, loopP, gbuf, file, wlist, user>>

SendPacked(p) ==
  /\ p # Monitor /\ pc[p] = "data"
  /\ Post(p, Monitor, Msg("write", "data", call[p], pbuf[p]))
  /\ Goes(p, "sending")
  /\ UNCHANGED <<setup, prog, call, field, pbuf, loopP, gbuf, file, wlist, user>>

-------------------------------------------------------------------------------
(* The monitor's loop over P *)

InLoop(op) == pc[Monitor] = "loop" /\ loopP < NProc /\ Now(Monitor).op = op

NextP == loopP' = loopP + 1

\* Mutant of OwnShare: the monitor is left with the share of the last P.
OwnShareLast ==
  /\ InLoop("read") /\ loopP = Monitor
  /\ pbuf' = [pbuf EXCEPT ![Monitor] = Packed(gbuf, ShareOrder(Now(Monitor), NProc - 1))]
  /\ NextP
  /\ UNCHANGED <<setup, prog, call, pc, field, gbuf, net, file, wlist, user>>

\* The monitor's own share is packed like any other, and kept.
OwnShare ==
  /\ InLoop("read") /\ loopP = Monitor
  /\ pbuf' = [pbuf EXCEPT ![Monitor] = Packed(gbuf, ShareOrder(Now(Monitor), Monitor))]
  /\ NextP
  /\ UNCHANGED <<setup, prog, call, pc, field, gbuf, net, file, wlist, user>>

\* Mutant of SendResp: the share is sent first and then its header.
SendRespLast ==
  /\ InLoop("read") /\ loopP # Monitor
  /\ Post(Monitor, loopP, Msg("read", "data", call[Monitor],
                              Packed(gbuf, ShareOrder(Now(Monitor), loopP))))
  /\ Goes(Monitor, "answering")
  /\ UNCHANGED <<setup, prog, call, field, pbuf, loopP, gbuf, file, wlist, user>>

SendResp ==
  /\ InLoop("read") /\ loopP # Monitor
  /\ Post(Monitor, loopP, Msg("read", "resp", call[Monitor], <<>>))
  /\ Goes(Monitor, "answering")
  /\ UNCHANGED <<setup, prog, call, field, pbuf, loopP, gbuf, file, wlist, user>>

SendShare ==
  /\ pc[Monitor] = "answered"
  /\ Post(Monitor, loopP, Msg("read", "data", call[Monitor],
                              Packed(gbuf, ShareOrder(Now(Monitor), loopP))))
  /\ Goes(Monitor, "shipping")
  /\ UNCHANGED <<setup, prog, call, field, pbuf, loopP, gbuf, file, wlist, user>>

\* All have been served: RSL_READ unpacks the monitor's own share.
FinishRead ==
  /\ pc[Monitor] = "loop" /\ loopP = NProc /\ Now(Monitor).op = "read"
  /\ field' = [field EXCEPT ![Monitor] =
                 Unpacked(@, ShareOrder(Now(Monitor), Monitor), pbuf[Monitor])]
  /\ Returns(Monitor)
  /\ UNCHANGED <<setup, prog, pbuf, loopP, gbuf, net, file, wlist, user>>

OwnPart ==
  /\ InLoop("write") /\ loopP = Monitor
  /\ gbuf' = Unpacked(gbuf, UnpackOrder(Now(Monitor), Monitor), pbuf[Monitor])
  /\ NextP
  /\ UNCHANGED <<setup, prog, call, pc, field, pbuf, net, file, wlist, user>>

\* Mutant of SendGo: the monitor waits for the message it did not ask for.
SendGoNot ==
  /\ InLoop("write") /\ loopP # Monitor
  /\ Goes(Monitor, "collect")
  /\ UNCHANGED <<setup, prog, call, field, pbuf, loopP, gbuf, net, file, wlist, user>>

\* Mutant of SendGo: the monitor asks itself too.
SendGoToAll ==
  /\ InLoop("write")
  /\ Post(Monitor, loopP, Msg("write", "go", call[Monitor], <<>>))
  /\ Goes(Monitor, "going")
  /\ UNCHANGED <<setup, prog, call, field, pbuf, loopP, gbuf, file, wlist, user>>

\* "send a short 'go ahead' message"
SendGo ==
  /\ InLoop("write") /\ loopP # Monitor
  /\ Post(Monitor, loopP, Msg("write", "go", call[Monitor], <<>>))
  /\ Goes(Monitor, "going")
  /\ UNCHANGED <<setup, prog, call, field, pbuf, loopP, gbuf, file, wlist, user>>

\* The message of P, unpacked into the record.
Collect ==
  /\ pc[Monitor] = "collect"
  /\ Take(loopP, Monitor, "write")
  /\ gbuf' = Unpacked(gbuf, UnpackOrder(Now(Monitor), loopP),
                      Received(loopP, Monitor, "write").body)
  /\ NextP
  /\ Goes(Monitor, "loop")
  /\ UNCHANGED <<setup, prog, call, field, pbuf, file, wlist, user>>

\* The record is complete and leaves the monitor; RSL_WRITE returns.
FinishWrite ==
  /\ pc[Monitor] = "loop" /\ loopP = NProc /\ Now(Monitor).op = "write"
  /\ IF Now(Monitor).internal
     THEN user' = [call |-> call[Monitor], data |-> gbuf] /\ UNCHANGED <<file, wlist>>
     ELSE Output([call |-> call[Monitor], data |-> gbuf]) /\ user' = user
  /\ Returns(Monitor)
  /\ UNCHANGED <<setup, prog, field, pbuf, loopP, gbuf, net>>

\* MPI_Send returns to its caller: when the message is received, or before.
SendReturns(p) ==
  /\ \/ pc[p] = "sending" /\ Returns(p) /\ UNCHANGED loopP
     \/ pc[p] = "going" /\ Goes(p, "collect") /\ UNCHANGED <<call, loopP>>
     \/ pc[p] = "answering" /\ Goes(p, "answered") /\ UNCHANGED <<call, loopP>>
     \/ pc[p] = "shipping" /\ Goes(p, "loop") /\ NextP /\ UNCHANGED call
  /\ UNCHANGED <<setup, prog, field, pbuf, gbuf, net, file, wlist, user>>

-------------------------------------------------------------------------------

\* The model has made MaxCall calls and all of them have returned.
Finished == /\ \A p \in Proc : pc[p] = "model" /\ call[p] > MaxCall
            /\ UNCHANGED vars

CallAny(p) == CallRead(p) \/ CallWrite(p) \/ WriteHeader(p) \/ Flush(p)

WorkerStep(p) == RecvResp(p) \/ RecvShare(p) \/ RecvGo(p) \/ SendPacked(p)

MonitorStep == OwnShare \/ SendResp \/ SendShare \/ FinishRead
               \/ OwnPart \/ SendGo \/ Collect \/ FinishWrite

Next == \/ \E p \in Proc : CallAny(p) \/ SendReturns(p)
        \/ \E p \in Worker : WorkerStep(p)
        \/ MonitorStep
        \/ Finished

Spec == Init /\ [][Next]_vars

\* Every processor goes on, and MPI returns from a send at the latest when the
\* message has been received; that it buffers any is not assumed.
Taken(p) == \A q \in Proc : net[p][q] = <<>>
FairSpec ==
  /\ Spec
  /\ \A p \in Proc : WF_vars(CallAny(p)) /\ WF_vars(Taken(p) /\ SendReturns(p))
  /\ \A p \in Worker : WF_vars(WorkerStep(p))
  /\ WF_vars(MonitorStep)

-------------------------------------------------------------------------------
(* Properties *)

\* The types of the variables; the arrays and buffers are left to the others.
TypeOK ==
  /\ setup \in Setups /\ prog \in Seq(Calls) /\ Len(prog) <= MaxCall
  /\ call \in [Proc -> 1..MaxCall + 1]
  /\ pc \in [Proc -> {"model", "resp", "share", "go", "data", "sending", "loop", "answering",
                      "answered", "shipping", "going", "collect"}]
  /\ \A p \in Worker : pc[p] \in {"model", "resp", "share", "go", "data", "sending"}
  /\ \A p \in Proc : pc[p] # "model" => call[p] \in DOMAIN prog
  /\ loopP \in 0..NProc
  /\ \A p \in Proc : DOMAIN field[p] = Own(p, AllCells)
  /\ \A p, q \in Proc : net[p][q] # <<>> => (p = Monitor) # (q = Monitor)

\* A record that leaves the monitor, to the unit, to the list of records kept
\* back or to the model's array, has at each place the element which the
\* owner of the place had there when it made that call (rsl_io.c:550-554).
RecordsWhole ==
  \A r \in Range(file) \union Range(wlist) \union (IF user = <<>> THEN {} ELSE {user}) :
    prog[r.call].op = "write" => r.data = Whole(prog[r.call], r.call)

\* The unit gets the records of all calls that returned on the monitor, once
\* and in the order of the calls, those kept back after those it has; and a
\* record that is kept back was written after the last flush.
Recorded(n) == \/ prog[n].op = "header"
               \/ prog[n].op = "write" /\ ~ prog[n].internal
RecordsInOrder ==
  LET rs == file \o wlist
  IN /\ {r.call : r \in Range(rs)} = {n \in 1..call[Monitor] - 1 : Recorded(n)}
     /\ \A x, y \in DOMAIN rs : x < y => rs[x].call < rs[y].call
     /\ \A r \in Range(wlist) :
          /\ BufferOutput
          /\ \A n \in r.call..call[Monitor] - 1 : prog[n].op # "flush"

\* When RSL_READ returns on a processor, each of its points that the record
\* has holds the record's element.
ReadsDistributed ==
  \A p \in Proc : (pc[p] = "model" /\ call[p] > 1) =>
    LET c == prog[call[p] - 1]
    IN c.op = "read" =>
         \A cell \in Own(p, Cells(c)) : field[p][cell] = Elem(cell, call[p] - 1)

\* What p is about to receive, and how many elements it expects.
Awaits(p) ==
  CASE pc[p] = "resp"    -> [from |-> Monitor, kind |-> "read", what |-> "resp", len |-> 0]
    [] pc[p] = "share"   -> [from |-> Monitor, kind |-> "read", what |-> "data",
                             len |-> Len(ShareOrder(Now(p), p))]
    [] pc[p] = "go"      -> [from |-> Monitor, kind |-> "write", what |-> "go", len |-> 0]
    [] pc[p] = "collect" -> [from |-> loopP, kind |-> "write", what |-> "data",
                             len |-> Len(UnpackOrder(Now(p), loopP))]

\* A receive names a kind and a sender only; yet it gets the message of its
\* own call, the header before the share, of the length it has room for.
EachToItsCall ==
  \A p \in Proc : pc[p] \in {"resp", "share", "go", "collect"} =>
    LET a == Awaits(p)
    IN Ready(a.from, p, a.kind) =>
         LET m == Received(a.from, p, a.kind)
         IN m.call = call[p] /\ m.what = a.what /\ Len(m.body) = a.len

\* Every call returns on every processor, however the calls of the processors
\* overlap and even if MPI buffers no message, so all of them are made.
EveryCallReturns == <>(\A p \in Proc : call[p] = MaxCall + 1)
=============================================================================
