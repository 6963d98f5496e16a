# A TLA+ model of ISUMM5

ISUMM5 is a real-time weather forecast: a script that cron starts twice a day fetches a global forecast, prepares it with the
TERRAIN, REGRID and INTERPF programs, and runs the MM5 mesoscale model on it. MM5 runs on many processors by means of RSL, the
runtime system library under `src/MM5/MPP/RSL/RSL`, which decomposes domains, exchanges the cells at the edges of patches,
couples nested domains and does the I/O over MPI. The numerics of MM5 are beyond a model checker. What can go wrong *between*
processors, between domains that step at different rates, between runs that share directories and between a run and the one it
is restarted from, is not, and that is what this project is about.

- [Components](#components): the parts of the system, their state, operations and interactions, and what is hard about each
- [Modules](#modules): what models what, and how
- [Runs](#runs): what is checked, the bounds and why they are enough
- [Fairness](#fairness)
- [Proofs](#proofs)
- [Findings](#findings): where the code and its documentation disagree
- [Facts met on the way](#facts-met-on-the-way): limits of what holds, which no run is spent on
- [Not modelled](#not-modelled)
- [Plan](#plan)

Paths without a directory are under `src/MM5/MPP/RSL/RSL/`; `mpp_*.incl` are under `src/MM5/MPP/RSL/`, and MM5's own routines
under `src/MM5/domain/`.

## Components

All processors run one program and make the same calls of RSL in the same order, each at its own speed. Almost nothing about
messages is negotiated: each processor has a copy of the whole decomposition of each domain, works out alone what it will send
and what it will receive, keeps the result until a flag says it is stale, and trusts that the others have come to the same
conclusions. That is the common theme of the hazards below.

| component | state it keeps | operations | who calls it, what it uses |
|---|---|---|---|
| **Stencil exchange** `exch_sten.c`, `rsl_mpi_compat.c`, `buf_for_proc.c`, `rsl_comm.h` | the table of tags and request handles; one send and one receive buffer per processor; per call, the receives still to be unpacked | `RSL_EXCH_STENCIL`; `rslMPIIRecv`, `rslMPIWait`, `rslMPIFindWaitH` | MM5 before each loop that reads neighbours; uses the tables of a compiled stencil |
| **Stencils and decompositions** `stencil_def.c`, `comp_sten.c`, `decomp.c`, `rsl_new_decom.c`, `default_decomposition.c` | the owner of every cell; the cells of others around the own patch; for each stencil its description, its `compiled` flag and one *procrec* per neighbour with a pack and an unpack table | `RSL_CREATE_STENCIL`, `RSL_DESCRIBE_STENCIL`, compiling (from an exchange), `RSL_FDECOMPOSE` | set up by MM5 for each domain; recompiled after a new decomposition |
| **Pack tables** `process_refs.c`, `comp_sten.c`, `exch_sten.c` | `list_head`, a sorted list of strided references per field; the finished table | `init_process_refs`, `store_process_refs`, `process_refs`; the copying loops of an exchange | called while a stencil is compiled, once for packing and once for unpacking, on each processor alone |
| **Domains and nests** `domain_def.c`, `decomp.c`, `cd.c`, `patchmap.c`, `border.c` | the tree of domains; mother and child records of cells, with the processors of both; trimmed cells | `RSL_MOTHER_DOMAIN`, `RSL_SPAWN_REGULAR_NEST(1)`, `RSL_FDECOMPOSE`, the mapping functions | MM5 when it starts and when a nest begins; what forcing, feedback and stencils count from |
| **Loops over local cells** `rsl_new_decom.c`, `comp_world.c`, `pt.c`, `MPP/RSL/LMexp.m4` | offsets, sizes and, per padding, two lists of runs of each processor | working them out with a decomposition; `RSL_REG_RUN_INFOP` | every loop of MM5 that FLIC has rewritten |
| **Boundary information** `domain_def.c`, `fill_boundary.c`, `get_bdy_info.c` | per cell: trimmed or not, distance to the edge, nearest side, on two grids | trimming, four walks round a new domain, `RSL_GET_BDY_*` | spawning a nest; MM5's boundary loops and its feedback |
| **MM5's decomposition** `MPP/RSL/parallel_src/lb_alg.c` | processor speeds, the cuts of a line of cells | `mapping_`, called by `RSL_FDECOMPOSE` | returns a processor for each cell, or ends the program |
| **Forcing and feedback of nests** `rsl_bcast.c`, `rsl_merge.c` | in both domains' `domain_info`, lists of senders and receivers with counts of points, and two flags; staged points; receives not taken yet | packing loops (`RSL_TO_CHILD_INFO`, `RSL_TO_PARENT_INFO`), `RSL_BCAST_MSGS`, `RSL_MERGE_MSGS`, unpacking loops | MM5's nest driver, every time step of a nest; depends on the decompositions of two domains |
| **Record I/O** `rsl_io.c`, `rsl_ioserve.c` | the monitor's whole-record buffer, the list of records kept back, messages of each processor | `RSL_READ`, `RSL_WRITE`, `RSL_WRITE_1D_DATA` and the like, `RSL_OUTPUT_BUFFER_WRITE` | MM5's input and output routines; processor 0 is the monitor and serves requests in its own call |
| **MM5's main program** `Run/mm5.F`, `drivers/nstlev1.F` to `nstlev5.F`, `nest/chknst.F`, `boundary/bdyin.F`, `io/*.F` | the clocks of each domain, the active nests, the boundary record in force, when output is due; output files and each processor's restart files | the coarse step and the steps of nests in it, nests beginning and ending, boundary input, output, saving, restarting | the user's `mmlif`; whoever restarts a run |
| **Real-time run** `src/scripts/run_realtime.py` and the files of the programs | downloads, pregrid's files, the regridded file, three inputs of MM5, its output, the archives | the steps of the script, the programs it starts | cron, at 05 and 17 UTC |
| Others | see [Not modelled](#not-modelled) | | |

What is hard, and what makes each component correct:

- **Stencil exchange.** All messages of a sender have one tag, whatever the call and the stencil; a processor may be a whole
  call ahead of its neighbours, its messages lying in MPI until they enter the call; `MPI_Send` may or may not wait for the
  receiver; the handle of a receive is looked up by its tag. Correct means: ghost cells have the values of *this* call, a wait
  finds the request it means, a message fits the receive it meets, and every call returns.
- **Stencils and decompositions.** Two processors never speak about a stencil, so their tables must mirror each other by
  construction, and a redecomposition must reach every stencil of the domain, the one that is being compiled included. Correct
  means: tables agree pairwise, they are those of the description and the decomposition in force, and there is one node per
  neighbour.
- **Pack tables.** The two ends have arrays of different sizes and offsets, see points in different orders, sort by address,
  drop duplicates and merge neighbouring runs; still, the two tables must name the same elements in the same order.
- **Domains and nests.** A processor number is kept in three places for each cell of a nest (its own, its mother's record, and
  its record of its mother) and each redecomposition writes only some of them. Correct means: they agree after any sequence of
  redecompositions of mother, nest and nest in nest.
- **Loops over local cells.** A loop's bounds are computed from one run of cells and applied to all; runs are built by one pass
  over all cells of the domain with a few variables carried along. Correct means: a loop between two global indices touches
  exactly the processor's cells between them, and the padding it asks for, whatever is trimmed.
- **Boundary information.** A walk that keeps a hand on the edge, leaves a breadcrumb and may cross its own path. Correct means:
  it ends, and on the rectangles MM5 uses every distance and side is right.
- **MM5's decomposition.** A heuristic that retries with other speeds and weights, in floats. Correct means: it ends; what
  it returns are rectangles in the order of the mesh, within the limits of MM5's fixed arrays (they are exceeded by one cell, see
  [Findings](#findings)).
- **Forcing and feedback.** The lists survive from call to call, and go stale when *either* domain is redecomposed; both sides
  wait for a message per list entry, whatever the model packed. Correct means: exactly the packed points arrive, where their
  owner is now, with the data of this call.
- **Record I/O.** A processor that got its share of a record goes on to the next call while the monitor serves the others;
  messages of different calls are told apart only by the order MPI keeps; the two ends of each message loop separately over
  points and levels; records may be kept back and flushed later. Correct means: records are whole and in order.
- **MM5's main program.** Several clocks; restart files that each processor writes by itself, of which a kill leaves any
  mixture; suffixes of output files chosen by looking at what exists; intervals that need not be whole numbers of steps. Correct
  means: domains and processors are always of times that go together, the boundary record is that of the step, a restart
  loses no more of the output than a kill left unwritten at the end of a file, and does not destroy what it came from.
- **Real-time run.** Every run uses the same directories, no return code is looked at, a run may be killed anywhere, in the
  middle of a file too, and the forecasts of consecutive runs overlap. Correct means: MM5 only starts on complete inputs of its own cycle, and wrong archives
  do not pile up.

## Modules

| module | models | state ↔ code |
|---|---|---|
| `HaloExchange` | what `RSL_EXCH_STENCIL` promises, without messages | a processor reads its neighbours' cells as of its own call |
| `RslExchange` | the exchange on all processors over MPI | `toPost`, `toSend`, `Pque`: the three loops of `RSL_EXCH_STENCIL`; `lut`: `rslMPIHandleLUT`; `handle`: `waitHandle`; `rbuf`: the receive buffers; `posted`, `done`, `net`: MPI; `mem`: the versions of the cells in memory |
| `RslStencil` | describing, compiling, decomposing, on all processors in lock-step (no call communicates) | `owner`: `domain[].P`; `compiled`, `procs`: the flag and the procrecs of a stencil; `sten`, `stenlist`: descriptions; `decomposed` |
| `RslPackTable` | the references of a procrec, sorted, merged, and walked by the copying loops | `list`: `list_head`; `table`: `pack_table` or `unpack_table`; `building`: between `init_process_refs` and `process_refs` |
| `RslRuns` | what a processor works out from a decomposition, as operators: offsets, sizes, runs, loop bounds | `LocalOffset`, `LocalSize`: `ilocaloffset` ... `nloc`; `Runs`: the arrays `is`, `ie`, `js`, `is2`, `js2`, `je2` and `nrun`; `Bounds`: what `RSL_REG_RUN_INFOP` returns |
| `RslDomain` | the tree of domains, spawning, decomposing and decomposing anew, on all processors in lock-step | `info`: `domain_info` (`P`; `mother_P`; `kid_P`: what the mother's record says; `over`: whose record a mother has); `local`: what `RslRuns` says for each processor |
| `RslBoundary` | trimming and the four walks, cell by cell | `dist`, `side`: `wrk_dbdy`, `wrk_bdy`; `ring`, `pos`, `dir`, `crumb`: `in`, `i, j`, `dir`, `bc_i, bc_j` of `fill_boundary_1` |
| `RslBalance` | `mapping_`, `decomp_load`, `alc`, `alc1` | `line`: the row of processors that is cut; `speeds`: `pspeeds`; `stage`: how far `alc` has given in; `cuts`, `rows`, `cols`: `result`, `result_y`, `result_x`; `owner`: `w2` |
| `RslNest` | forcing, feedback and redecompositions on all processors | `info`: each processor's `domain_info` (owners, mothers' owners, lists, flags, `Xlist`); `Plist`, `Ptags`, `sbuf`, `rbuf` as in the code |
| `RslIo` | reads, writes, headers and flushes of all processors and the monitor | `gbuf`: the record buffer of the monitor; `loopP`: its loop; `wlist`: `write_buffer_head`; `net`: FIFO channels; `field`: the local arrays |
| `Mm5Run` | a coarse domain, nests in nests, boundary records, output and restart files of several processors, kills and restarts | `mem`: `KTAU`, `XTIME`, `ITAPCNT` of each domain on each processor; `active`: `IACTIV`; `frames`: the calls of `NSTLEV1`, `NSTLEV2` in progress; `bdy`: `TBDYBE`, `BDYTIM`; `tap`, `sav`: `TAPTIM`, `SAVTIM`; `files`, `tapes`: `./restrts` and `MMOUT_DOMAIN*`; `cut`: the outputs whose end a kill may have kept from the disk |
| `RealtimeRun` | the script, what each program may leave when it fails or is killed | `grib`, `fg`, `regrid`, `out`, `inp`, `mmout`, `nc`: the files; `step`, `at`: the program counter |
| `RslExchangeProofs`, `RslStencilProofs`, `RslNestProofs`, `RslIoProofs`, `RslDomainProofs`, `RslBalanceProofs`, `RealtimeRunProofs`, `Mm5RunProofs` | theorems, of the module each is named for | |
| `MC...` | an instance of each for TLC | |

How they fit together:

- `RslExchange` takes the pack and unpack tables as constants and assumes (`CompiledAssumption`) just what `RslStencil`
  establishes (`TablesAgree`, proved as `TablesAlwaysAgree`); `RslPackTable` shows that tables that agree as *sets of references*
  also agree as *sequences of memory places*; `RslExchange` implements `HaloExchange` under the refinement mapping at its end.
- `RslBalance` gives the decompositions: `PatchesAreRectangles` is what the loops of `RslDomain` (`LoopsMeetTheirCells`, for
  processors whose cells are a rectangle) and the `regular` layouts of `RslIo` rest on. `RslRuns` is extended by `RslDomain`.
- `RslDomain` gives the tree that `RslNest` starts from: `TreeAgrees` says that both ends of a transfer count from the same
  numbers. `RslNest` redecomposes the same way, with the lists of senders and receivers that `RslDomain` leaves out, and shares
  the MPI layer's behaviour with `RslExchange`, in a reduced form without the tag table.
- `RslBoundary` works out what is trimmed for any shape of nest; for rectangles it is the last rows and columns, which
  `RslDomain` and `RslStencil` use.
- `Mm5Run` is the caller: in it a step of a domain is one action, and what the other modules show is that such a step can be taken
  for one (exchanges and transfers return, with the data of the step).

Abstractions that run through all modules: the value of a cell is its *version*, the number of the call for which its owner
computed it, and the fields of a domain are the clock they belong to; a point or field is a model value or a pair of indices; an MPI
message is a record in a set or sequence that is matched by sender, tag and order; a send may block until it is received, or
return at once, by a nondeterministic choice (`Send`, `SendReturns`). A handler is split into several actions only where another
processor can be observed in between, that is at each send, receive and wait (and in `Mm5Run` where a kill leaves files
behind); everything between two of those is one action.

Choices worth knowing:

- `RslExchange`: `RSL_PROBE` is empty under MPI (`rsl_comm.h:291`), so the order in which messages are unpacked is that of the
  list. A wait that finds no handle waits on an uninitialised variable; the model gives it `Garbage`, and
  `WaitFindsItsReceive` says that this never happens.
- `RslStencil`: an exchange is the pair *compile if needed, use the tables*; it is one action since nothing is observable
  in between. Three actions cover it (compiled, compiles, compiles after a default decomposition).
- `RslNest`: domains are decomposed when they are spawned (`domain_def.c:1059-1068`), so the branch of the compilers for
  domains without a decomposition is left out. A failing `RSL_FDECOMPOSE` changes nothing here.
- `RslDomain`: the runs are sequences made from the sorted cells rather than from a loop over all of them. A processor that has
  cells but computes none finds in its runs what three variables happened to hold (`rsl_new_decom.c:691`): the constant
  `Found`. MM5's mapping function is a set of decompositions (`Mapped`); those of RSL are computed.
- `RslBalance`: weights are ten times those of the code and speeds are integers, so sums are exact; where the code compares
  a sum that equals a share, floats may say either, and so does `Numbers`. `Smoothed` lets a retry take anything off the fastest
  processor and give to the others, whatever fraction the code's floats come to.
- `RslBoundary`: the recursion of `fill_boundary_1` is a state machine, one cell a step: it is a tail call, and nothing is done
  on the way back.
- `RslIo`: `RSL_RECV` names `MPI_ANY_SOURCE` (`rsl_comm.h:281-284`), but its tag holds kind and sender (`MTYPE_FROMTO`,
  `rsl.h:690`), so a receive takes the first message of that kind from that sender. Output is kept back only with
  `MPP_IO_NODE=1`, until `outtap.F` flushes.
- `Mm5Run`: times are integers, in ticks small enough for the steps of the innermost nest. `NamelistOK` states what is assumed of
  `mmlif`; each part of it is needed, see [Facts met on the way](#facts-met-on-the-way). Whoever starts the program goes on from the latest
  time that all processors have files of, and begins anew only when there is none. The processors go through SOLVE together (its
  exchanges see to that), but write restart files each at its own pace. Of output units only the case `BUFFRQ < TAPFRQ` is modelled, in
  which they stay open and are never flushed (`outtap.F:1650-1665`), while each restart file is closed at once
  (`mpp_output_10.incl:35`). So a kill may keep the end of the last output of each open file from the disk, or all of it: `Crash` puts those
  outputs into `cut`, which is what may be lost and not what must be. What a runtime library holds back is taken to be less
  than an output is long, and the machine to go on: what was passed on is on disk.
- `RealtimeRun`: a run ends before the next one starts. The script takes no lock; the 12 hours between runs are what
  it relies on. A run may be killed in the middle of any step, which then leaves any part of what it writes or deletes: a converted
  GRIB file with some of its records or none, some of pregrid's files, a regridded file with the first few times, an archive that
  is cut. A file is a function from the times it has to the cycle they are of and to whether their fields are all there. Its unit is
  the time: a program that fails or is killed stops between two times, and a record that is itself cut is not modelled. A program that
  finds fields missing may stop or go on; MM5 stopping for that reason counts as something that goes wrong. `MMINPUT` and `BDYOUT`
  grow with each time interpolated and `LOWBDY` is written only after the last one, and opening an existing file does not truncate it
  before its first write. `InputsOfTheCycle` covers any failures of programs and downloads without a kill, and any number of kills
  with nothing else failing, if the converted files of the cycle are whole. Beyond that it is not true: a kill together with another
  failure, or kills of which one leaves a part of a converted file, which the next attempt takes as done
  (`run_realtime.py:28,43-50`), can leave inputs of another cycle that the check of sizes lets pass.

## Runs

| run | module / cfg | result | asks |
|---|---|---|---|
| `exchange` | `MCRslExchange` | pass | `GhostsCurrent`, `WaitFindsItsReceive`, `MessageFitsReceive`; refinement of `HaloExchange` (`HaloSpec`); liveness `EveryCallReturns` |
| `stencil` | `MCRslStencil` | pass | `TablesAgree`, `ExchangesTheStencil`, with decompositions that may fail |
| `stencil_late` | `RslStencilLate.cfg` | violation | `OneNodePerProcessor` where the first decomposition failed |
| `pack_table` | `MCRslPackTable` | pass | `TransferExact` |
| `nest` | `MCRslNest` | pass | `TransferExact`, `CompiledIsCurrent`; liveness `EveryCallReturns` |
| `domain` | `MCRslDomain` | pass | `TreeAgrees`: mother and nest know each other's processors; `LoopsMeetTheirCells`: a loop goes through exactly its cells, padding included |
| `boundary` | `MCRslBoundary` | pass | `RectangleBoundary`: distances and sides of rectangles; `TrimmedAsShifted`: trimming one row and column leaves no reflex corner over; liveness `EveryTraversalEnds` |
| `balance` | `MCRslBalance` | pass | `PatchesAreRectangles`; liveness `SearchEnds` |
| `io` | `MCRslIo` | pass | `RecordsWhole`, `RecordsInOrder`, `ReadsDistributed`, `EachToItsCall`; liveness `EveryCallReturns` |
| `io_turned` | `RslIoTurned.cfg` | violation | `RecordsWhole` of the documented layouts with a regular decomposition |
| `mm5run` | `MCMm5Run` | pass | `AllInStep`: domains and processors are of times that go together; `BoundaryInForce`; `OutputsKept`: of the output nothing is lost but what files ended with at a kill, and mixtures of files of several runs; action property `WayBack`: what the run came from remains |
| `realtime` | `MCRealtimeRun` | pass | `InputsOfTheCycle`, `WrongArchivesBounded` |

Each passing run also checks the `TypeOK` of its module, and TLC evaluates the assumptions on the constants in all of them.
Deadlock is checked in all passing runs but three: a finished program stutters by an explicit action `Finished`, so a state without
a successor is a real deadlock. The programs of `domain`, `boundary` and `balance` are sequential and just end, and say
`CHECK_DEADLOCK FALSE`; `EveryTraversalEnds` and `SearchEnds` show of the latter two that they end where they should.

Bounds, and why they are enough:

- **exchange**: three processors in a row, four cells, three calls on three stencils. Three processors are needed for one to
  wait for two others, and for two neighbours that are not each other's; three calls with a stencil that only moves cells
  eastward (`west`) let the western processor be two calls ahead, which is where the shared tag matters; `far` sends longer
  messages than `west`, so that a message taken for that of another call would not fit.
- **stencil**, **stencil_late**: a domain of two by four cells, up to three processors, two stencils and two shapes, three
  decompositions with different neighbours (by halves, by rows, in strips), a trimmed column. Two stencils are
  enough for one to be compiled and one not at a redecomposition. The number of calls is not bounded.
- **pack_table**: six fields, one per layout, of three levels; all sets of points of two columns of three rows with one
  message, smaller sets with another, and two points with any set of messages, so that fields overlap, columns adjoin, and
  runs merge across rows and columns. The arrays of the two sides differ in offset, size and address.
- **nest**: three processors, a coarse domain of three points, a nest of four points under two of them, any three
  operations out of a forcing, a feedback and a new cut of either domain. Three operations give every *transfer, cut,
  transfer* of the two kinds and domains. The model packs for some of the points only, so that one message is empty and one full.
- **domain**: four processors in a mesh of two by two, a mother of four by four cells, up to two nests of ratio three: rounded
  up and trimmed, of one cell of the mother, lying over one another, in a nest, and ones that are refused; decompositions
  by a mapping function and by two of RSL's own, and one domain decomposed anew. One redecomposition reaches each of mother,
  nest and nest in nest with the others left alone; domains of up to 36 cells have processors that are only trimmed, or have none.
- **boundary**: rectangles up to 7 by 6, from a single row on, with none, one or two rows and columns trimmed; ragged nests of
  three or four squares of three by three or four by four cells, which include one with a reflex corner at each place. Paddings and
  trims in MM5 are at most two.
- **balance**: domains from six by five to eleven by eight cells, meshes of two by two and three by two; limits from too little
  for the line to ample; equal processors, one slow, one fast, all different; mothers and nests (which weigh differently), an I/O
  node, a missing corner.
- **io**: in one use, three processors, records of up to two levels, any three calls out of a read, a write smaller
  than the domain, an internal write, a header and a flush. Three calls let a processor be ahead by two, and give *write, flush,
  write*. In the other, points dealt out irregularly, one call with a record smaller than the domain in either direction, all
  six layouts.
- **mm5run**: two processors (enough for restart files to differ), three domains one in another (with the middle one both nest and
  mother), six forecasts of five to ten coarse steps: a nest in a nest that begins later and ends earlier, restart files of
  which only the last is kept, intervals that are not whole numbers of steps with boundaries that begin before the forecast and end
  before it does, a nest that begins between coarse steps, two nests that end together, steps that are not whole minutes with
  restart files at times that round up and down. Each is started up to three times, killed at any step including between
  two processors' files, with one restart file that cannot be opened. Three starts give a restart of a restarted run.
- **realtime**: six cycles, forecasts of three times that overlap in two, at most two failures or kills. Old archives are
  deleted three and four cycles later, so that six cycles are enough for an archive to be missed by both runs that would delete
  it; two faults are enough for a failure whose leftovers meet those of another. Kills of which one leaves a part of a converted file
  and lets another cycle's leftovers in are within these bounds, and so are two kills after which MM5 starts on whole files.

Every property of a passing run has a mutant in `PROJECT.json`: a change of a modelled definition, of the kind a bug in the code would
be, under which TLC finds the property violated.

## Fairness

`RslExchange` and `RslNest`: weak fairness of the next step of each processor (`Step(p)`), and of the completion of each
processor's receives (`Deliver(p)`). The first is that the operating system runs each process; the second is MPI's progress rule: a receive
that matches a message that was sent completes. A step is disabled, not merely unfair, where a send waits for a receiver that
has not posted, so that `EveryCallReturns` really excludes that processors wait in a circle.

`RslIo`: weak fairness of each processor's calls and steps, of the monitor, and of the return of a send *whose message has been
received*. That MPI buffers anything is not assumed.

`RslBoundary` and `RslBalance`: weak fairness of `Next`, since the code is one sequential program and nothing in it waits.
`SearchEnds` is about a loop that calls itself "effectively infinite" and ends only because each retry takes something off a speed
(`lb_alg.c:76-140`): a run in which `alc` retries for ever would be fair. The other runs have no liveness property and state no fairness.

## Proofs

Checked by `tlapm`, for every value of the constants that satisfies the assumptions of the modules.

**`RslExchangeProofs`** (assumptions `ExchangeAssumption`, `CompiledAssumption`). `Invariance` proves the inductive invariant
`IInv == TypeOK /\ NetInv /\ LocalInv` of `RslExchange`. The safety properties are not inductive, since nothing in them says which messages
may be in flight. `NetInv` does: a message in flight was sent and not taken (`NetSound`), whatever was sent and not taken is in
flight (`NetComplete`), and nothing is taken before it is sent (`NetCausal`), each told from the program counters of both ends.
With it, the oldest message of a sender in flight is that of the receiver's call, which a shared tag relies on. `LocalInv` says what
a processor's loops, requests (at most one for each sender, of this call) and values are. One lemma for each
action shows that the step keeps `IInv`. Consequences:

- `TypeCorrect`: `TypeOK`
- `GhostsAreCurrent`: after a call, ghost cells hold the values of that call
- `WaitsFindTheirReceives`: looking a handle up by its tag alone finds the right one
- `MessagesFitReceives`: a message has exactly the cells of the receive it can meet
- `ImplementsHalo`: `Spec => HaloSpec`, the refinement of `HaloExchange`: sending, posting and delivering are stuttering steps,
  unpacking is `Take`

**`RslStencilProofs`** (assumptions on the constants, and where stated `ShapesFit` and `TouchUntrimmed`, which are about the
calling model: no stencil reaches beyond the domain's own, and patches that touch do so at points that compute).

- `TypeCorrect`
- `TablesAlwaysAgree`, from `MirrorInv`: at *every* time, in use or not, the procrecs of each two processors mirror each
  other; this holds because "being a neighbour" is symmetric, which is what `TouchUntrimmed` gives
- `ExchangesAlwaysTheStencil`, from `CurrentInv`: a compiled stencil has a node for each neighbour, and all its
  nodes belong to the description and the decomposition in force. Needs stencils to be described once, see
  [Facts met on the way](#facts-met-on-the-way)
- `AlwaysOneNodePerProcessor`, from `OnceInv`: an uncompiled stencil has no nodes. Needs a domain that is decomposed from the
  start; the run that checks the property is the one that shows why, `stencil_late`

**`RslNestProofs`** (assumption `NestAssumption`). `Invariance` proves `IInv == TypeOK /\ InTransfer /\ CompiledIsCurrent`: the lists in each
processor's `domain_info` are changed in two places only, by compiling and by a redecomposition of the nest or its parent, and
whichever comes last, lists whose two flags are set count the points of the decompositions of now, and a nest point knows the processor of its mother.

That is not enough for what arrives. Processors may be whole operations apart, so that the lists of the receiver of a message in flight
are not those it was sent by. But the plan of operations is one for all, and where a point is at operation `k` is determined by the
last cut of its domain before `k` (`Home(k, x)`). With it a formula tells what each pair of processors exchange in each transfer
(`Counted`), without any processor's variables, and the past does not change when the plan grows (`HomeStable`, `PastStable`). The
invariant `ExactInv == IInv /\ NetInv /\ \A p : Local(p)` says that each `domain_info` is that of its processor's own time (`AtHome`),
that what is in flight is what was sent and not matched of those exchanges (`NetSound`, `NetComplete`, `NetCausal`), and
what a processor's requests, finished receives and staged points are of them (`Busy`).

- `TypeCorrect`
- `ListsAlwaysCurrent`: `CompiledIsCurrent`
- `TransfersAlwaysExact`: `TransferExact`
- `NeverAborts`: no processor packs more for another than was counted (the `RSL_TEST_ERR` of `RSL_BCAST_MSGS` and `RSL_MERGE_MSGS`), and no
  message outlives the operation it belongs to

**`RslIoProofs`** (assumption `IoAssumption`). Between the monitor and another processor, how far each has got in its calls
determines which messages were sent and which received (`Sent`, `Got`; `Posted`, `Collected`). `NetInv` says that what is in flight is
just the difference, and is in the order of the calls; so the first message of a kind is the one its receiver waits
for. `BodiesInv` says what messages hold, `PackedInv` and `ServedInv` what the buffers of a processor and of the monitor do, and `RecordsInv` which
records have been put out. `AllInv` is the conjunction with the types. The monitor's loop puts the records together one processor after the
other (`GatheredInv`); that each element lands where it belongs needs that the order in which a part is packed lists every place once,
which the lemma `Listed` proves for any total order by counting: the ranks of the places are different numbers below how many there
are, so all of them occur. The same holds for the unpacking end, in its own order (`Packed`, `Unpacked`).

- `TypeCorrect`; `MessagesFindTheirCalls`: `EachToItsCall`; `NoRecordLost`: `RecordsInOrder`; `ReadersGetTheirPoints`: `ReadsDistributed`
- `RecordsPutTogether`: `RecordsWhole`, under `LayoutsAgree` (no write of layout JIK with a regular decomposition): without it the
  theorem is false, see [Findings](#findings)

**`RslDomainProofs`** (assumption `DomainAssumption`). Of a nest's cell and its mother, each keeps the other's processor, and the
mother keeps only her youngest nest. `Inv` says that the tree is one (`ShapeOf`: every nest lies over cells of a domain older than it,
which compute, and every cell's mother is one of these) and that where a mother still has a cell in her record the two agree
(`AgreesOf`). `DecomposedAgrees` follows the three places through a decomposition: the domain's own processors, its cells' mothers', and the
processors its nests' cells have for *their* mothers; `LinkedAgrees` shows that a new nest only takes cells out of older nests'
records. Nothing is assumed of how domains are decomposed.

- `TreeAlwaysAgrees`: `TreeAgrees`
- `TypeCorrect`: `TypeOK`. It rests on `LocprocInRange` (`c_locproc` places every index of a row, of any length and among any
  number of processors, on one of them), which is proved too: `LocprocDef` shows that the recursion from the margins inwards defines
  a function at all (the functions for rows of up to N processors exist and agree with each other), and the least number of processors for which
  a place were out of range would leave a smaller one. That nests lie over trimmed cells only of a parent whose size they do not count in (spawned in
  cells of *its* parent, `sw = 1`) came out of this proof: the first form of `TypeOK` did not allow it, and `domain_def.c:670-675,700` does

**`RslBalanceProofs`** (assumption `BalanceAssumption`: the calls have the types that `mapping_` is given). The two properties say nothing of
a search in progress, nor of rows that are cut while the bands of columns are still to come. `Invariance` proves
`IInv == LineInv /\ CutInv /\ OneMoreOnTheLast /\ DoneInv`: the numbers dealt to a line so far are within its limit, but for one
cell, and leave the rest that `Left` says; a cut that is accepted deals out the whole line; rows, and the columns of each band that is finished, are
such cuts. It uses nothing of the weights and speeds but their types, so that it holds whatever the sums of floats come to.

- `TypeCorrect`
- `OverTheLimitByOne`: the limit on the cells of a processor, which does not hold (see [Facts met on the way](#facts-met-on-the-way)),
  is exceeded by one cell at most, and on the last processor of a line only
- `PatchesAlwaysRectangles` (`PatchesAreRectangles`): a finished line of cuts gives each index to just one share (the least
  processor with the index below its total), shares are in order, and the number of a processor tells its row and column

**`RealtimeRunProofs`** (assumptions `RealtimeAssumption`, `NoFileAssumption`), for any number of cycles and failures and any length of
forecasts.

- `TypeCorrect`
- `InputsRight`: `InputsOfTheCycle`. There are two reasons why MM5's inputs are right, and an invariant for each. As long as only
  kills go wrong and the converted files of the cycle are whole (`Orderly`), every step of a run makes its files anew, and whatever
  lay there before is overwritten. As long as nothing was killed (`Unkilled`), there is no leftover that the script could take for its
  own: pregrid's files are removed by the run that made them, a `REGRID_DOMAIN1` of another run lacks the last time of this one, and
  without that time `LOWBDY_DOMAIN1` is not written. Fields that are missing can then all be traced to a converted file (`Lacks`)
- `ArchivesOwed`: `WrongArchivesBounded`. The wrong archives, with the one that the run in progress is about to make, are never more
  than the failures (`FaultsCover`)

**`Mm5RunProofs`** (assumption `RunAssumption`), for any number of processors and domains, any namelist, and any kills, lost files and
restarts. Steps of nests are a recursive function; that it is one, and yields numbers, is shown by hand from the least domain
for which it would not (`DtMinExists`).

- `TypeCorrect`. `TInv` adds that sets of domains still to be written are empty but while they are written, and that the clocks in
  files are clocks: what a restart reads is what a processor wrote
- `BoundariesOfTheTime`: `BoundaryInForce`. The property only speaks of SOLVE. `PhaseInv` says what holds of the record in each phase
  of a coarse step: before the boundaries are read it is in force for the step *before* (or there is none, right after a
  restart); after a step it is the record of that step unless it was the last; `BdyKnown`, that it is the one before the next in the
  file, so that the next begins when it is over. `Clocked` ties XTIME to KTAU, in memory and in all restart files,
  which is what makes the test for the first step of a run (`KTAU.EQ.KTAUR`) one for a restart
- `AlwaysInStep`: `AllInStep`. `RunInv` is about memory. Its centre is `NestsOfTheTime`: whether a nest is active is what the namelist says
  of the clock, or of the clock a step ago, or not yet known, according to the phase and to how far CHKNST has come. It is a
  statement about CHKNST's loop, which goes from mothers to nests (`MothersThere`: a mother that has just ended still has the
  time by which the nests in her are ended), and about clocks left over from nests that have ended (`ClocksStopped`: they do not
  begin one again). `CallsInOrder` says that the calls in progress are of domains each older than the next, and `StepsCounted` how many
  steps each nest has made: three for each of its mother's, less those that the calls still owe it, so that a nest is never
  stepped twice or left out by calls that overlap. `SavInv` is about files: each whole file is what a processor had at *some* time of the
  forecast (`FilesRight`), and a time is one of `SAVFRQ` (`Saving`). That a restart takes only files of one time follows from
  `SameTime`: two files that pass for the same minute are of the same time. `GoesOn` shows that INITSAV, which knows the time only in
  minutes, takes every nest that goes on then; a nest that is to begin or end at that time it may take or leave out, and CHKNST
  sets that right
- `WayBackKept`: `WayBack`. `CameFrom` says that the restart the run came from is still possible, and of a time that was saved.
  Saves are further apart than a minute, so a run's own files have other names (`OtherNames`), and what is opened for the old name,
  the file itself or the last resort `restrts`, stays what it was (`RestartKept`)
- `OutputsOfTheRunWritten`: `OutputsOfTheRun`, what is true of a single run without any exception and whatever files are called:
  before SOLVE makes the next step, every output that fell due since the run began is in a file, of the coarse domain and of every
  nest at the time, and no kill has taken any of it. `TapTimed` says that TAPTIM is the *first* multiple of TAPFRQ that the steps have not reached, after
  a restart too (`FirstAfterLeast`), so no output is passed over; `PastWritten`, that what the program has got beyond is
  in a file that this run has opened, which is the reason why nothing it opens later empties it (`OutTapWrites`). OUTPUT takes the
  number of an output back from the clock, `NINT(XTIME/TAPFRQ)`, to see whether INCTAP includes it: `NintBack` shows that
  rounding the time to steps does not change that number, since TAPFRQ is no shorter than a step
- `OutputsAlwaysKept`: `OutputsKept`, what is left of this across restarts. That a kill takes no more than what a file ends with rests
  on `CutInv`: a file that a kill has cut is never gone on with, only opened anew. The rest is about whole files. A restarted run may open a file of an earlier one, and so empty it; why that
  never takes output that no file has again is a statement about all the runs before. The numbers of files are what it is about. `OldKept`
  is what the run in progress needs: the output up to the time it came from is in files, and as long as it has opened none, in files
  with numbers up to ITAPCNT + 1.
  That must be true of whatever time the *next* run goes on from, so it is said of what lies on disk:
  - `StoreInv` says what restart files hold besides what they are read for: which XTIME they have (`FilesExact`: that of a nest which began
    between two coarse steps lags, unless output has just set it right), and that what this step has saved is what is in memory
    (`SavedSoFar`), the monitor being the last to have output before it saves.
  - `Passing`: as long as no restart file is lost, no run gets beyond a time of restart files without leaving a set one can go on from
    (`Can`), if such a set is possible at all (`Usable`: with a lagging clock it may not be). `Ahead` and `Backed`: the run itself is not
    before any such time, and the one it came from is still there. So the times to go on from only grow.
  - `KeepInv` is about the latest such time that is passed, the *base* `L`. All runs since then have begun from it, but perhaps the first.
    What is due up to `L` is in files up to ITAPCNT + 1 of the monitor's restart file of `L` (`FilesLast`), and such a run opens a file
    with a number of ITAPCNT + 1 if there is none of that name, else + 2: never one it needs. The second number is the last, however
    many runs there are. For the nests that begin after `L` there is no restart file; they number on from their mothers, and the *limits* `M` say,
    from mother to nest, which numbers no run since `L` goes beyond (`NewLimited`, `NewBehind`). With them, a restart file that only
    the monitor has, of a time later than `L`, either has all that was due until then in files up to its number, or has counted to the limit
    (`LaterFiles`), so that it can serve once the other processors have theirs. `LimitsExist` gives such limits for any base.
  - `LastOfRun` and `LastKept` are for `SVLAST`, where there is no base: the coarse domain has one restart file, of the time the
    run came from or of its own last step of restart files, with what is due until then in files up to its number and one more.

  The exceptions in the property are explained in [Facts met on the way](#facts-met-on-the-way)

Only model-checked:

- liveness (`EveryCallReturns`, `EveryTraversalEnds`, `SearchEnds`), which is out of TLAPS's reach;
- `RslPackTable`, which computes by folds over sequences, and the runs of `RslRuns` with `LoopsMeetTheirCells`: what they yield for every
  input is an induction over data, which the installed provers cannot instantiate;
- `RslBoundary`: its properties are of a whole walk, an induction over its cells.

## Findings

Met while modelling; each is the violation of a run. Neither is reached by MM5 as it is built here, which stops when a domain
cannot be decomposed, and writes records of layouts IJ and IJK.

- `stencil_late` (`comp_sten.c:360`): the `compiled` flag is set before a domain without a decomposition is decomposed, which
  clears it; the next exchange compiles again and leaves two nodes for each neighbour.
- `io_turned` (`rsl_ioserve.c:876`): with a regular decomposition, a written record of layout IO3D_JIK is packed
  point by point and unpacked level by level.

## Facts met on the way

Limits of what the properties say, each of which a configuration of the models shows. Assumptions and constants exclude them, but for
the first, which is no condition of any property.

- The comments on `limitto` (`lb_alg.c:71` and `156`) say that no processor gets more cells than this. When one more is left,
  `alc1` gives it to the last processor (`lb_alg.c:183-185`), although a cut that fits may exist, and `alc` then never looks for
  it: twelve rows for two equal processors with a limit of 6 become 5 and 7. No property states the limit; how far it is exceeded is
  a theorem (`OverTheLimitByOne`). MM5's arrays have room for it: it stops only where `MLOC` or `NLOC` is more than
  `MIX+2` or `MJX+2` (`mpp_mm5_10.incl:19,24`, `mpp_initnest_20.incl:31`).
- A stencil that is described a second time keeps the nodes of the first description (`stencil_def.c:234`; `Redescribe`).
- A processor that has only trimmed points has nodes for neighbours that have none for it (`comp_sten.c:374`; `TouchUntrimmed`), and
  its runs hold what was left over from the run before (`rsl_new_decom.c:691`; `Found`). MM5's nests lose at most two rows, and its
  patches are wider.
- `RSL_REG_RUN_INFOP` fills arrays of `2*nlen+10` runs without looking at their length; rectangles have one run per column, far below.
  Loops padded by five or six cells reach beyond the padding area of four that RSL allocates, and nothing refuses them.
- On ragged nests with a reflex corner, the walk of distance two gives the second arm of the corner a 3 for a 2; a trim of two leaves a
  diagonal cell over; a nest of a single cell has no walk. All of these end; MM5 only makes rectangles of at least three by three.
- RSL's own decomposition functions may leave processors without cells (four cells on three processors become 2, 0 and 2), and divide by
  zero on a mesh of more processors than the domain has cells. MM5 uses `mapping_`.
- `patchmap` gives processors to cells that are not of the domain; whoever counts by processor must test for the domain too.
- Nests that lie over one another: the record of a mother's cell is that of the younger nest (`domain_def.c:1026`), and
  the older nest's points there are no longer forced. `TreeAgrees` is stated for the records that are left, with `over` to tell.
- `NamelistOK` of `Mm5Run`, each part of which fails without it: a nest in a nest with a start of 0 begins again after its mother has
  ended, if a restart leaves the mother out, since the mother's clock is then 0 (`chknst.F:37`); an interval shorter than the
  coarse step lags behind without end; restart files are named by whole minutes, and those of two times within one get the same
  name; a nest that begins between two coarse steps has a clock that lags, and nests in it begin and end late by it; with `SVLAST`,
  such a nest needs saves at least two steps and a minute apart, or a restart could mix files of two times. A restart compares
  XSTNES and XENNES with the time *rounded to minutes*: a nest saved soon after it began is taken for one yet to begin
  unless its file's time, rounded, is more than a minute after XSTNES (`initsav.F:39`), and one saved just before it ends for one
  that has ended if that time is rounded up to XENNES. `Givens`: a restart that switches a nest on and its mother off, both of which
  end at that time, goes on with the nest for ever.
- Restart files of the same time left by two runs differ in `ITAPCNT`, and `OUTTAP` looks only once for an output file that exists
  (`outtap.F:160`). So a run that goes on from a mixture of files can open, and so empty, a file with output that no other has.
  Three ways to such a mixture, each found by TLC on a forecast made for it: seven runs of a coarse domain, two of whose restart files
  could not be opened; with `SVLAST`, five runs in which a nest had begun in the first and begins again in the fourth, without any
  file lost; going back to an *earlier* restart twice, and to the latest after that. `OutputsKept` is for runs that go on from
  the latest time they can, without files that could not be opened, and with `SVLAST` for the coarse domain.
- The other processors may have saved a time before the monitor has written the output of that time. If all of them have, the
  monitor has a restart file of that time from an earlier run, and the program is killed just then, the next run goes on
  from that time and the output is lost. `OutputsKept` leaves out the times of restart files.
- A run that is killed after saving a time later than its last output is restarted past that output, of which the end may
  never have been written: output units are neither closed nor flushed (`outtap.F:1650-1665`). `OutputsKept` lets this happen to what
  a file ends with, and nothing else.
- A restart with one step left reads no boundary record (`mm5.F:216`).
- With `SVLAST`, as in `Templates/oparam`, the only restart file is overwritten in place; a kill during the save leaves nothing to go on from.
- The saving loop of `mpp_output_10.incl` sets a pointer's domain without `ADDRX1C`, against its comment (lines 18-19), so a nest that began
  between two coarse steps is saved with a clock that lags. Where the lag shows in whole minutes, a restart refuses the file;
  otherwise it takes it, and goes on rightly: SOLVE computes XTIME from KTAU, which does not lag.

## Not modelled

- **RSL calls that MM5 does not make**: transposes, periodic boundaries (MM5 has none), redistribution of state (`rsl_remap_state.c`),
  moving nests (`rsl_move.c`), polygons of irregular nests, boundary input for another model (`rsl_mm_io.c`; MM5 reads boundaries with
  `RSL_READ`), special forms of I/O and forcing (`handle_spec*.c`, `rsl_hemiforce.c`), `RSL_ORDER`, which calls itself obsolete.
- **No state, or set once before all else**: broadcasts of a value from the monitor, start-up, processor meshes and
  messages' descriptions. They are constants, or fields, of the models.
- **Not compiled**: transport layers for other machines, and the sockets of `rsl_ioserve.c`.
- **Growth of buffers and of the tag table**, and the texts of errors. An `RSL_TEST_ERR` that can only fire on wrong arguments is a guard.
- **MM5's initialization, dynamics, physics and data assimilation, and the interpolation in TERRAIN, REGRID and INTERPF**: arithmetic on
  reals, without a state that a model checker could tell apart. Of them the models take which calls they make, in which order and
  with which layouts, and which files they read and write.
- **FLIC**, which rewrites MM5's sources at build time: a parser and code generator for Fortran, external to the running system. What
  its output does, the loop macros of `LMexp.m4`, is in `RslRuns`.
- **MM5's utilities and batch scripts**, and `dump_frost_fx.py`, which converts one archive to text.
- In `Mm5Run`: moving nests, `BUFFRQ`, `LBDYIN`, another time step at a restart. In `RealtimeRun`: runs that overlap, uploads, logs, a record of a file that is itself cut.

FLIC and the numerics are more than half of the repository's lines. They are why the models cover the parts listed under
[Components](#components) closely, and the repository as a whole only in part.

## Plan

All components that MM5 uses at run time, and that a model checker can say something about, have a module. What is left: interleaved
transfers of several nests in `RslNest` (`rsl_bcast.c:199`), and transposes and periodic boundaries as further users of `RslPackTable`.
