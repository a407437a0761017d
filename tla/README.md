# LArLight: models, checks and proofs

LArLight is a C++/ROOT framework for liquid-argon detector data: it reads and
writes events, runs analyzers over them, groups hits into clusters, decodes the
readout electronics' binary files and shows events in a browser. This directory
holds TLA+ modules for the parts of it that keep state across calls, the TLC
configurations that check them, and proofs for the parts on which the most rests.

Paths are relative to `src/`. `PROJECT.json` has, for each definition, the lines
it models; for each run, what it checks; and the hazards, at their lines.

1. [The system](#1-the-system)
2. [The modules and how they correspond to the code](#2-the-modules)
3. [What each run checks, its bounds and its fairness](#3-the-runs)
4. [What is proved](#4-the-proofs)
5. [Where code and documentation disagree](#5-where-code-and-documentation-disagree)
6. [What is not modelled, and the plan](#6-what-is-not-modelled-and-the-plan)

## 1. The system

Everything but the electronics runs in one thread of one process. What is hard is
therefore seldom concurrency: it is objects that are used again after a failed or
half-finished call, indexes that are kept while the thing they index is
renumbered, loops that end at different places depending on which call found the
end, and vectors compacted in place. The event display's server is the exception:
it has peers that do what they like while it is between two calls.

| Component | State it keeps | Operations | Used by | Correct when |
|---|---|---|---|---|
| Storage manager, `core/DataFormat/storage_manager.cc` | mode and status; a chain of input trees and an output tree per product; one buffer per product, shared by both; event index and counters | setters, `open`, `next_event`, `go_to`, `get_data`, `close`, `reset` | analysis processor, decoder, event builder, scripts | what is read and written belongs to one event at a time; nothing is read beyond a tree; nothing is written twice or lost |
| Analysis processor, `core/Analysis/ana_processor.cc` | process status, attached analyzers and their status, index, events processed | `process_event`, `run`, `finalize`, `reset`, setters | scripts | each analyzer is initialized, used and finalized once, in that order; it sees the event asked for; all that was analysed is saved; the loop ends |
| Merge book keeper, `UserDev/CMTool/CMToolBase/CMergeBookKeeper.cc` | the output index of each input cluster; a triangle of flags for pairs that may not be merged | `Reset`, `ProhibitMerge`, `MergeAllowed`, `Merge`, `PassResult`, `Combine` | merge manager | it is a partition with separated blocks, whatever renumbering goes on underneath |
| Cluster merge manager, `CMergeManager.cc` on `CMManagerBase.cc` | input, output and current clusters, priorities, book keepers of this event and of each iteration | `SetClusters`, `Process`, `Reset` | `ClusterMerger` | no hit is lost or doubled; the book describes the output; the loop converges on a result with nothing left to merge |
| Cluster match manager, `CMatchManager.cc`, and match book keeper, `CMatchBookKeeper.cc` | clusters by plane, counters of the enumeration, the register of scored matches | `SetClusters`, `Process`, `Reset`; `Match`, `PassResult` | `ClusterMatcher`, shower reconstruction | every combination is asked of once; the result is disjoint and greedy by score |
| Merging algorithm array, `CBAlgoArray.cc` | a list of algorithms, how they are joined, an index for early exits | `AddAlgo`, `Bool` | the merge manager, as one algorithm | the answer is the one of the join that was asked for |
| Event display server, `UserDev/LarlightArgoBackend/SocketServer.cc`, `bin/larlight-argo-backend.cc` | set of descriptors, highest one, timers, receive buffer | `Setup`, `CheckForBadClients`, `Listen`, `SendTo`, `Close` | viewers, over TCP | it never blocks but in `select()`; connections are closed for a reason; everybody is let go |
| Decoders, `NevisDecoder/Algorithm`: `algo_tpc_xmit`, `algo_pmt_xmit` on `algo_fem_decoder_base`; `algo_tpc_huffman`, `algo_sn_tpc_huffman`, `algo_slow_readout_decoder`, `algo_trig_decoder` | position in the header, module and channel; counts and checksum; the product of the event | `process_word`, `process_event_header`, `process_ch_word`, `clear_event`, `check_event_quality`, ... | decoder manager | what is stored is what was sent; a lost word costs its event, or what the decoder is known to lose with it |
| Decoder manager and binary reader, `NevisDecoder/Decoder/decoder_manager.cc`, `FileIO/bin_io_handler.cc` | list of files, index of the event, limit; words read ahead, end of file | `initialize`, `decode`, `finalize`; `open`, `read_word`, `read_multi_word` | scripts | every word of the files is decoded once, however they are cut and read |
| Event builder, `NevisDecoder/EventBuilder` | one input file per readout stream, the entry and the event number each is at, counts of modules | `run`, `process`, `find_next`, `build`, `check_event_quality` | scripts | an event has all entries of one number; missing ones are noticed; nothing at the end of a file is forgotten |
| Geometry and fits: cluster parameters, Hough lines, showers, `GeoAlgo`, `LArUtil` | floating-point values of one call | | everything above | outside the reach of these tools |

How they interact: a script attaches analyzers to the processor; the processor
drives the storage manager from event to event and calls each analyzer, which
calls back with `get_data()`, for the products it wants and for those it makes.
`ClusterMerger` and `ClusterMatcher` are analyzers' helpers: they give the clusters
of an event to a manager and read its book keeper afterwards. The managers call
algorithms, often through an array of them. The merge manager keeps a book keeper
per iteration, and combines them when the event ends. The decoder manager reads words from
the binary files and gives them one at a time to the decoder, which puts an event together in
a product of the storage manager and has it written; the event builder reads one such
file per stream through a storage manager each, and writes one. The display server shares
nothing with the rest; it reads files through ROOT when a request has come.

Hard behaviours, component by component:

- *Storage manager.* In READ mode products are read one by one, when asked for, so
  that files without a tree shift the others; in BOTH mode an event is written when
  the next one is asked for, so that who finds the end decides about the last
  event; trees can be made in the middle of the loop; an alignment error is found
  half way through loading; `close()` without `reset()` leaves counters behind.
- *Analysis processor.* Any analyzer can fail at any point; `process_event()` may
  initialize, finalize and reset in the middle of itself, and `run()` around it.
- *Merge book keeper.* `Merge` gives all outputs new numbers and compacts a
  triangular table in four loops; `Combine` does so repeatedly, on a result
  computed before, and may throw on the way.
- *Merge manager.* Each iteration works on the output of the last, and spares pairs
  by comparing indexes across two numberings; at the end everything is composed.
- *Match manager.* Two nested odometers are advanced by hand; ties are decided by
  the order of a multimap; an exception leaves `Process` half way.
- *Decoders.* A word may be lost or spoilt anywhere. The decoder is a state machine that then
  meets words it does not expect; what it has gathered is dropped at once, at the next header, or,
  in debug mode, never. The six decoders recover in six ways.
- *Decoder manager.* Whether the file has ended is noted when the last block is read and looked at when its
  first word is decoded; the event under way at the end of a file goes on in the next.
- *Event builder.* Streams find their ends, their gaps and their missing modules at different
  times of the loop; `process()` has four ways to return, two of them with an
  event that is not built; a failure in one stream leaves the others where they are.
- *Server.* What `select()` said is used after other descriptors were closed and
  accepted; descriptors are given out again, timers are not erased; the buffer is
  shared; `send()` can block the only thread.

## 2. The modules

    ClusterPartition  <--refined by--  CMergeBookKeeper  <--  CMergeManager_proofs
    CMManagerBase  <--  CMergeManager  <--  MCMergeManager
                                       <--  CMergeManager_proofs
                   <--  CMatchManager (+ CMatchBookKeeper)  <--  MCMatchManager
                                                            <--  CMatchManager_proofs
    CBAlgoArray  <--  CMergeManager_proofs
    StorageManager  <--  StorageClient  <--  MCStorage
                                        <--  StorageClient_proofs
                    <--  AnaProcessor   <--  MCAna
                                        <--  AnaProcessor_proofs
    AlgoFemDecoderBase  <--  AlgoTpcXmit, AlgoPmtXmit, AlgoTrigDecoder,
                             AlgoSlowReadoutDecoder, AlgoTpcHuffman, AlgoSnTpcHuffman
                        <--  FemProcessWord (with the virtual functions of AlgoTpcXmit, AlgoPmtXmit)
    all of these, BinIoHandler  <--  DecoderManager  <--  MCDecoder
                                                     <--  DecoderManager_proofs
    EventBuilder  <--  MCEventBuilder
                  <--  EventBuilder_proofs
    SocketServer  <--  ArgoBackend  <--  ArgoBackend_proofs
    SequenceLemmas  <--  all _proofs but those of the decoders, the event builder and the server

Definitions with a comment `Faulty:` are code a plausible mistake away from the
real one. Nothing uses them: they are there to be put in the place of the
definition that follows, to see that a property notices.

**`CMergeBookKeeper`.** The vector of output indexes is `out`, a function on
`0 .. len-1`; `count` is `_out_cluster_count`; the triangle of flags is `prohibit`, for
each row the set of columns that are set, numbered as the code numbers them (row
`r` has an entry for each higher output). `Unite` is the body of `Merge` between two
outputs: the new row is built from the shifted and the inherited one exactly as
the four loops do it, so an off-by-one there is an off-by-one here. `Combine` is
not one action: `CombineBegin` makes the checks and takes its copy of the result,
then each call of `Merge` is a step, and one on a prohibited pair is `CombineThrow`,
after which the caller has the half-made result. `ClusterPartition` is what the
class promises: blocks and a relation *apart* between them. It has no indexes
at all.

**`CMManagerBase`, `CMergeManager`.** A cluster is a record of plane and hits, the hits
being the indexes of the input clusters they came from; so one can see where each
went. `pc` follows `Process()` through its calls: a pair put to the separation or the merging
algorithm is a step, and the answer is any. The iteration's book keeper is the
abstract partition, which the detailed one is proved to implement; the
numbering of its results, in the order of their first member, is proved too. `settled` is a
history variable: the pairs on which an algorithm had its say.

**`CMatchManager`, `CMatchBookKeeper`.** `planes` is the vector that
`SimpleCombination` permutes and `counter` that of `ClusterCombinations`;
`Advance` does what `PlaneClusterCombinations` does when the inner one is
exhausted. `register` is the multimap in the order of its iteration. A plane
beyond the detector's makes `Catch` the next step: the exception. A score is an
integer (`ScoresAssumption`), as floats are only compared with each other and with zero.

**`CBAlgoArray`.** One step per algorithm asked, `place` being the loop's index. The index
that the constructor leaves unwritten, `_last_and_algo_index`, starts with any value. Its names are
not those of the manager that it answers to, so that `CMergeManager_proofs` can extend both, and the book keeper's module with them.

**`StorageManager`.** The members are the record `st`, each function of the class an
operator from record to record, so that `AnaProcessor` can make two calls in a step
where the code does. A file is a sequence of events per product; the content of a
product is the number of its event, or `Cleared`. **`StorageClient`** is
a program that uses the object as the ones in `core/DataFormat/bin` do, in any order, until a call
has returned false. **`AnaProcessor`** has a step for each piece of `process_event()`
and `run()` between two calls out of the class, and the analyzers answer as they
like, call `get_data()` and fill what is theirs. Its callers are programs of three
kinds: any calls, only `run()`, and the scripts' `while process_event()`.

**`SocketServer`, `ArgoBackend`.** The first has the server's functions, `Listen` one
descriptor at a time and `SendTo` one `send()` at a time; the second `main()`'s
loop, the viewers, the kernel's queue and the clock. In between any two steps
viewers connect, send a further part of their request, read or hang up. A request
has three parts because `sscanf` tells two from three: it is content with the first
digits of the last number. `limit` is how many descriptors the process may have. The
listener has the lowest descriptor, as it is opened first, and `mFdMin` never changes.
Data that arrives on a connection after its request was dispatched is never looked at,
as the connection is closed after the answer. The 100 seconds of
`select()` are longer than the 15 seconds of the timers, so it can time out only when
all timers have.

**The decoders.** The members of a decoder are the record `d`, and its functions operators from
record to record, as with the storage manager: `ProcessWord(d, word)` is all that one
call does. A word is a class with what it carries (which header word of which
module, a channel's number, a sample), because the code tells words apart by their class
and by a count; checksums are sums over what the words carry, with the complement at `Padding`
that the code's mask makes. `FemProcessWord` is the `process_word()` of the base
class, with its virtual functions as parameters; TPC and PMT are given to it. The other
four decoders have loops of their own and do not derive from that class, but their fields are
of the same kinds, so they share the record. `Crashes` is the result where the code
goes through a null pointer, in front of a vector or beyond the array of
header words: nothing is said of what happens then. `HeaderCount` is the
number of header words, six as in the code.

**`BinIoHandler`, `DecoderManager`.** The handler is the record `io`: the words left in the file, those read
ahead, and whether the end was seen. `Open`, `ReadWord`, `Read` are its functions, operators on such a record; three ways of
reading are one word at a time, blocks of a fixed number of words, and blocks
whose size was set by the caller. In `DecoderManager`, `DecodeWord` is an iteration of `decode()`, `NextFile` its change of
file, `FinishDecoding` what it does after the loop. A job, `task`, is a program and its input: the
decoder, the files and the settings, and, for the properties only, what was sent
before any word was lost. A word is lost before the program starts:
that is where the electronics lose them, and the program has one file to read.

**`EventBuilder`.** `turn` is the position in the loop over the streams, 0 being the master; `pc` the call
that `run()` makes next. A stream's algorithm is the record of its members; the
storage manager it reads through is its index, which is as much as its
`StorageManager` has for a file that is read alone. `StopsAt` is where the loop of `find_next()` that
skips to a number stops. What the programs set up, `add_input()` and
`set_master_stream()`, is the choice of the initial state. `out` has, for each stream, the
entries its product was built from, so that one sees what an event consists of; `stored` is
the output file. `Qualities` are the answers of `check_event_quality()`: more than one
where it looks in front of an empty vector. `UseFout` is the use of the pointer that no
constructor sets.

## 3. The runs

| Run | Question | Bounds | States |
|---|---|---|---|
| `combine` | Does the book keeper behave as a partition, at every step of every sequence of calls? | 4 clusters | 3 k |
| `storage` | Is what is read, shared and written one event at a time, in every mode, over two sessions? | 3 products, 2 opens, 2 events per session | 1.6 M |
| `ana` | Do analyzers live once and see the right event, and is what they saw saved? | 2 analyzers, 3 products, 2 events | 205 k |
| `merge_manager` | Is merging lossless, does the book describe it, does it converge? | 4 clusters in every set-up, 6 where it only merges | 47 k |
| `match_manager` | Is every combination asked of once, and is the result disjoint and greedy? | 5 clusters on 3 planes | 29 k |
| `bool_array` | Does the unwritten index ever matter? Are early exits harmless with one kind of join? | 5 algorithms | 7 k |
| `server` | Can the scan block? Is a connection closed for a reason, and everybody let go? | 2 viewers, 1 or 2 descriptors | 846 k |
| `decoder` | Is what is stored what was sent, and what does a lost word cost, for each of the six decoders? | 2 or 3 events; one or two words lost, one spoilt, or none; up to three files; blocks of 4, 5, 7 words | 451 k |
| `event_builder` | Is an event ever stored in part? Are streams that agree stored to the last entry? Are missing modules noticed, but those of a TPC master? Does it end? | up to 3 streams of up to 3 entries, numbers up to 3 | 1.06 M |
| `ana_last`, `full_message`, `lockup` | The disagreements of section 5 | | |

`combine` checks its type invariant; those of the array and of the server are
parts of invariants that are proved. The other properties are those that take several steps to
go wrong.

- `combine`. `NumberedInOrder` and `NoStaleFlags` are about the two data structures;
  `SeparationIsForever` and `ImplementsPartition` about what they mean: a merge never
  moves a flag to another pair, makes one or loses one. `CombineComposes` says what `Combine`
  has done when it returns, and that it has joined nothing else when it stops half way. *Bound:* with four clusters `Merge` has rows before, between and after the
  two that it joins, which are all the cases of its loops; `Combine` has three
  results, groups of two, and pairs that are prohibited for it. Five clusters hold
  as well, in minutes. The proofs do not depend on it.
- `storage`. `LoopWithinTrees`: `TChain::GetEntry` is not asked for what is not there,
  even after a second `open()` that starts from the counters of the first.
  `ProductsOfOneEvent` (READ), `WrittenAsRead` and `OutputAligned` (BOTH and WRITE) and
  `FileIsComplete` follow an event from the input to the file. *Bound:* two events
  are the least for which "the next event writes the last one" and "one tree is shorter"
  differ from the trivial case, two sessions the least for stale counters and for
  reading back what was written. The inputs have a missing tree, a shorter tree,
  trees that disagree, two files that repeat an event number, and a missing file.
  The program may stop where it likes, but it never gets stuck.
- `ana`. `AnalyzersLiveOnce` and `EventsUnmixed` for all three kinds
  of callers; `RunFinalizesOnce` and `RunSavesAll` for programs that only call `run()`, the only
  mixture that the repository's scripts have; `LoopEnds` for those that loop.
  *Bound:* two analyzers are enough for one to stop the other; arguments up to
  three reach beyond the two events of the input.
- `merge_manager`. `HitsConserved`, `BookMatchesOutput`, `NeverThrown`,
  `NothingLeftToMerge` and `Returns`. The last is why the check that the book describes the
  output is worth something: the loop gets to its end. *Bound:* four clusters give up to three
  iterations, the first that combines a combination; the six-cluster event, for which the
  pairs to separate would be too many, has a fourth, and a plane whose clusters are few.
- `match_manager`. `EveryCombination` pins the enumeration, each once;
  `MatchedOnce` and `LosersLost` the result, also after a `Process` that was left by
  an exception, and with equal scores. *Bound:* three planes are the detector's; five
  clusters give twelve combinations with every kind of carry.
- `bool_array`. `IndexNeverDecides` says that reading `_last_and_algo_index`
  before anyone wrote it is harmless, whatever is in it; `OneKindAsDocumented` that an array of
  one kind answers as if all had been asked.
- `server`. `MasterSetIsOpenSockets`, `ScanNeverBlocks`, `ClosedForAReason`, `Attended`.
  *Bound:* one descriptor for two viewers is the case of a full table, two that
  of a scan that goes on after it has accepted or closed. An answer takes two
  `send()`s and the kernel has room for one, so that it blocks; the 15
  seconds are one tick, so that they can pass anywhere.

- `decoder`. `IntactAllStored`: without a loss every event is stored, whole and in order, wherever
  the input is cut into files and however it is read (with blocks of a fixed size except what reaches
  into the last, short block, see section 5). `StoredIntact`: whatever is lost, in debug mode or not,
  an event has all channels of the module whose header it carries, and they are
  the last that it has; nothing is stored twice, the limit is overrun by one at most, and
  numbers belong to the headers, with the one exception of section 5. `DebugLosesOnlyHit`: in debug mode,
  which exists to go on after errors, a lost word costs the events that the decoder is known to lose by it and no
  other. That can be more than its own event: with an event header of the TPC the event before, with the last word
  of a PMT module the one behind it, with a header word of the old PMT data all that follow, and with a word of compressed or supernova
  data the rest of the packet and, for some, the next one. The table `harms` in
  `MCDecoder` names them for each decoder and place. It was also tried the other way round, once and outside the runs: with one lost word each event that the table names is
  lost indeed, unless the program crashes.
  `CrashedKnown` names the inputs with which the program may go through a null pointer or
  beyond an array. `WordsInOrder`, an action property, says that in each of the three ways of reading a read takes the
  next word of the files, and that a file is not left before its end. *Bound:* two events are the least for which what a failure leaves
  behind can get into another, three the least for which the one behind that must be
  well again; one event has two modules. Two lost words are the least with which a
  count agrees again. Block sizes of 4 and 7 fall on all positions relative to
  header, channel and event; 5 is the length of the sized blocks. A frame number beyond `roll_over()`,
  a PMT readout that follows another, a module that does not count its last word, and a
  channel without data are among the loads.
- `event_builder`. `NeverTorn`: each stream's product is whole, or left out, and it is left
  out although the file has the event in one case only, after which the loop ends (section 5).
  `StoredInOrder`: events are stored in increasing order and, without debug mode, none of the
  master's is skipped. `AgreedAllStored`: streams that have the same events are stored to
  the last entry in success, although each of them notices its end at another time.
  `MissingModulesNoticed` compares the counts that two algorithms keep with what
  was stored (`RegularStored`) and, of the number that these are compared with, says that it is the number of modules which the
  first event has in the file (`FirstCounted`). It leaves out a TPC stream that is the master: `run()` skips the master in
  the loop that asks `check_event_quality()` (`event_builder.cc:139`), so that such data are stored with whatever number of modules, which nobody
  notices. The PMT algorithm looks by itself, in `build()`, as the master too. `Returns`: the loop ends. *Bound:* three entries are two modules of an event and one of
  another, or the other way round, with a gap before, between or behind; three streams are all
  there are, with each as the master, in two orders. Streams that are not used have empty files.

Fairness. `combine`, `storage`, `match_manager` and `bool_array` check safety
and assume none. `decoder` and `event_builder` state `WF` of their one thread, in which nothing
waits; the decoder's properties are safety all the same. In `merge_manager` and `ana` it is `WF` of the steps of a call: there is
one thread and nothing in these calls waits; `ana` adds that a program which loops over
`process_event()` calls it again, as a `while` does; what the others do next is free. In
`server` it is `WF` of the server's thread as a whole, which is enabled unless it is blocked in
`select()` or `send()`; of the clock; and, for `Attended` only, of a viewer's reading
what the kernel holds for it (until it hangs up). A viewer that has connected need not send anything,
and viewers may connect for ever. No step of the server gets a fairness of its own:
who is served first is left to the scan, which is why `Attended` is "let go", not
"answered". `lockup` drops the viewers' fairness, as TCP does when a host disappears.

Deadlock is checked except in `ana`, `ana_last`, `decoder` and `event_builder`, where programs end.

## 4. The proofs

TLAPS checks them for every value of the constants.

**The book keeper** (`CMergeManager_proofs`, first part), for any number of clusters below
65536, as the code's indexes are `unsigned short`. None of its properties is inductive alone:
that the compaction leaves no stale flag needs the outputs numbered without gaps, that needs
the two arguments of `Unite` in range and different, which in the middle of a `Combine`
needs to know how far it is. The invariant is

    IInv == Sizes /\ Outputs /\ Flags /\ Progress

with the types of the functions, the numbering of the outputs, the triangle and the
position of `Combine`. `UniteNumbers` and `UniteFlags` are what one merge does to
`Outputs` and `Flags`; `UniteClustersKeeps` puts them together, and each action keeps the
invariant by a lemma of its own.

| Theorem | States |
|---|---|
| `Invariance`, `TypeCorrect` | `IInv`, and from it `TypeOK` |
| `NumberedInOrderAlways` | outputs are `0 .. count-1` in the order of their first member |
| `NoStaleFlagsAlways` | no flag outside of the live triangle |
| `SeparationHolds` | a pair that was separated stays so until `Reset` (an action property) |
| `Refinement` | `BookSpec => ImplementsPartition`: every step is one of `ClusterPartition` or stutters |

The last two rest on `FlagIsKept` and `FlagHasOrigin`: after a merge a pair of outputs is flagged if
and only if a pair of the outputs they are made of was. From there
`UniteMovesApart` gives the abstract relation after `Join`, and each kind of step has its lemma.
It is this theorem and `NumberedInOrderAlways` that let `CMergeManager` use the
partition for its iterations' book keepers.

**Combine**, on the invariant above: `CombineAlwaysComposes`. Its loops
hold indexes into two results while `Merge` renumbers the outputs under them, so `CInv` is about
clusters, never about outputs: `Between`, that what was together still is and nothing came together
unasked, and `Gathered`, that a cluster the loops are through with is with its target, the first
of its group. When no cluster is left each group is one output (`GroupsAreOutputs`). That the
*indexes* are right too is because a partition has only one numbering in order of first members
(`OneNumbering`): at the least cluster where two differ, the smaller of the two numbers is taken
already. The induction is `LeastNumber`, from the library's theorem that `<` is well-founded.

**The merge manager** (`CMergeManager_proofs`, second part), for any events, set-ups and answers of the algorithms and any
number of iterations. From `EventsAssumption`: each cluster of the input has a hit. The
invariant `MInv` says for each place of `Process()` what is known of the clusters, the book keepers and the pairs there:

- `Made(clusters, input)`: each input cluster is in one of the clusters, with all of its hits and in its own plane;
- `Chain(book, passed, clusters)`: the book keepers of the iterations so far, combined one after another, say what the
  clusters are made of, and none of these calls throws. It is a statement about a chain of results, because `EventEnd()` goes
  along the chain from its other end: `ChainGrows` is for an iteration that adds one, `ChainShrinks` for a `Combine`;
- `ApartKept`, `Looked`, `Spared`: a pair of clusters in one plane is still to be asked about, was settled by an algorithm,
  or one of the two was merged. What the next iteration spares because neither of a pair was merged in this one was
  settled in this one or before (`SparedNext`), though it is compared by indexes across two numberings.

An iteration's groups are merged in the order of their first members: `PassResultLists` says that the results list the blocks, each
once, by `RankedOnce`, and `GroupsMade` that what is made of them is `Made`.

| Theorem | States |
|---|---|
| `HitsConservedAlways` | each hit of the input is in the output once, in its plane |
| `BookMatchesOutputAlways` | the combined book keepers say which inputs an output cluster is made of |
| `NeverThrownAlways` | neither `Merge` nor `Combine` throws |
| `NothingLeftToMergeAlways` | a converged result has no pair that an algorithm has not settled |

**The match manager** (`CMatchManager_proofs`), for any events, cuts and integer scores. The invariant is

    MatchInv == Fields /\ Unasked /\ Enumerating /\ Enumerated

*The enumeration.* A combination is a vector of flags with a state of the odometer, and `Before` an order of them: more planes
first, then as `next_permutation` orders the flags, then as the odometer counts. `Enumerating` says that what was asked about is exactly what
is before the place where the loops are (`AskedBefore`), so a step has to show that the new place is behind the old one with nothing
in between (`MovedOn`). For the odometer that is `CounterNext` (the digits at their ends are a suffix, by
`SuffixOf`), for the flags `FlagsNext`, `FlagsLast` and `FlagsFirst`; that there is a next
vector at all unless this is the last needs that they are finitely many (`FirstOfFlags`). The order is one of
places and the question one of clusters: that a place is a set of clusters of different planes, another place another
set, and each such set the one of a place, is `CombinationIsChoice`, `CombinationInjective` and `ChoiceIsCombination`, from what
`ColumnsGood` says of `cluster_array`.

*The result.* `PassResult` is a fold, defined by recursion on sets of places; `PassResultStepwise` shows that its equation has a
solution and makes of it one step per candidate. `PickedFrom` says what is picked of the candidates from one on, and `PickStep` carries it
to the one before. That the winner is no worse than the loser is the register's order (`RegisterOK`): insertion behind all of no better
score keeps it, as ever fewer planes are taken (`LargerRegistered`).

| Theorem | States |
|---|---|
| `EveryCombinationAlways` | the algorithm is asked of every choice across planes, once, and of nothing else |
| `MatchedOnceAlways` | no cluster is in two matches of the result, and none is of another event |
| `LosersLostAlways` | what is left out shares a cluster with a match that is no worse |

**The Boolean array** (`CMergeManager_proofs`, last part), for any number of algorithms:
`IndexNeverDecidesAlways`. The invariant `ArrayInv` adds `AndsRecorded`: the index is never before that
of an AND algorithm. On top of it `OneKindAsDocumentedAlways`: `SoFar` says that `status` is what the answers so
far make, and that `Bool()` leaves its loop at the end or where the next answer cannot change it; with one kind of join
none of the later ones can. The documented answer is a recursive function of which the provers know no values; that
it has the ones of its equation is `JoinedStepwise`.

**The server** (`ArgoBackend_proofs`), for any number of viewers and descriptors. The invariant is

    IInv == TypeOK /\ MasterSetIsOpenSockets /\ Waiting /\ NothingLeftToScan
              /\ ScanNeverBlocks /\ TimersOfConnections /\ Answering

`MasterSetIsOpenSockets` needs the kernel's side, `Waiting`: a viewer that is not accepted yet waits once and
has no descriptor. `ScanNeverBlocks` is about a set that
`select()` returned some time ago, and is kept because only the server takes away
what makes a descriptor ready; `NothingLeftToScan` says that no member of it
outlives the scan. `TimersOfConnections` says that the timer of a descriptor is never
ahead of the connection that has it now, though timers are not erased and descriptors are given out again, and `Answering` that
the descriptor which `main()` keeps is the asker's or nobody's; the
action property `ClosedForAReason` needs both.

| Theorem | States |
|---|---|
| `SafeServer`, `TypeCorrect` | `IInv`, and from it `TypeOK` |
| `MasterSetCorrect` | the master set is the set of open sockets, none of them above the highest |
| `ScanCorrect` | neither `accept()` nor `recv()` blocks in the scan |
| `ClosedCorrect` | who is let go was answered, is gone, or was too old (an action property) |

**The event builder** (`EventBuilder_proofs`), for files of any length and any order of the
streams: `StoredNeverTorn`. From `InputsAssumption`, that numbers do not decrease along a file, and
`SetupsAssumption`, that a stream is given once. The invariant follows one event
through the loop:

    IInv == Kinds /\ Loaded /\ Numbered /\ AheadEmpty /\ Building /\ Finding
              /\ BehindGood /\ Ends /\ StoredWhole /\ NeverTorn

Streams whose turn is to come have an empty product and *rest*: they have ended, or all entries before the
one they are at are of earlier numbers (`AheadEmpty`). The one whose turn it is has gathered the entries of the event from the
first on (`Building`, `Finding`). Those behind have what `NeverTorn` asks of the event,
unless something failed, and rest again (`BehindGood`). `Ends` says that an end which was found is known
to the loop; so as long as it goes on, no event stored has lost a last entry (`StoredWhole`), which
`NeverTorn` alone would not tell. The lemmas about `Piece` are about the products: that what
`build()` appends one at a time is all of an event when the next entry is of a later one.
`StreamStep` is what the steps of one turn have in common, and `OtherStreams` what it leaves alone.

**The order of events**, from the same assumptions: `StoredInOrderAlways`. The
invariant adds to `IInv` what it says of the master stream:

    OInv == IInv /\ UpToHere /\ MasterMoved /\ StoredInOrder

`StoredUpTo(n)` is that all stored events are before `n` and, without debug mode, all the
master's events before `n` are stored. `UpToHere` says it of the master's entry while the
master leads the event, and of the event's own number from then on; `MasterMoved` carries it over to
the next event: once the master has left an event its entry is of a later one, with none of its numbers in
between, unless something failed and the loop ends.

**Missing modules**: `MissingModulesNoticedAlways`. The counts are members of the two algorithms that outlive an
event, and one of the two notices a missing module only when it begins the next event. `CInv` adds to `IInv`, for each
stream, `Fem`: between its turns the stream is past the events whose numbers it keeps, so that an event which begins
is a new one, and within its turn the count is that of the product; `TpcNoticed`, that everything stored is regular; and
`PmtNoticed`, that once something irregular was stored the algorithm is `Broken`: its next event throws, and so does
every later one. `FInv` adds `FirstOf`, for any stream: while the first event is being built the number that the others
are compared with is that of its modules so far, and afterwards that of its entries in the file; `FirstIsOver` is why that
holds of whatever has been stored. A TPC master is excluded from the theorem as from the property: it is stored unchecked.

**Streams that agree**: `AgreedAllStoredAlways`. `AgreedInv` adds to `CInv`, for inputs with the same
events everywhere and as many modules in each: all streams are at the event of the loop or, behind their turn, at the next
number or their end (`InStep`, `Following`), nothing has failed, and the events before this one are stored
(`AllBefore`). An end is found by each stream at its own time; what makes it right is that all of them have found it, and
no event follows, when the loop looks.

| Theorem | States |
|---|---|
| `StoredNeverTorn` | each stream's product is whole, or left out in the cases named |
| `StoredInOrderAlways` | increasing numbers, none of the master's skipped without debug mode |
| `MissingModulesNoticedAlways` | a product with another number of modules than the first event has in the file is not stored, or is the last of its stream; except of a TPC master |
| `AgreedAllStoredAlways` | streams that agree are stored to the last event, in success |

**The decoder manager** (`DecoderManager_proofs`), for each of the six decoders, any files of words
in any order (also such as no detector would send), any size of blocks and any limit. From `JobsAssumption`, that a job names a decoder, a way of
reading and files of words of the kinds that this decoder tells apart, and `HeaderCountAssumption`. A step of the
manager is a call of a decoder, which is some hundred transitions, and a read, so each has
its part.

*A word.* Each decoder has a lemma about one call, `TpcWord`, `PmtWord`, `TrigWord`, `SlowWord`, `HuffWord`, `SnWord`, and it rests
on one lemma for each function of that decoder. They say what a call may do to the output file (nothing, or one event more, and then the
event's header is forgotten, since the product was cleared) and when it may crash: not once an event header has come, unless a
PMT decoder looks for a channel in an empty product. The two Huffman decoders need an invariant of
their own, because they store header words in an array before they look at the count: `HeaderOK`, that the count is within the array
and that a complete header announces words, so that it is cleared before another header word can come; and `HuffOK`, that
the number of words counted is never below zero, nor the sum while that number is zero: the end of a channel, which is added
before the comparison, then never makes them agree with the zeros of a header that has not come. `DecodedWord` puts the six together.

*A read.* `HandlerOK` relates the two ends of file that the handler knows, `feof()` of the file and its own `_eof`, which is
set at another time in each way of reading, to the words left and to those buffered. `ReadNext` says of all three that a read takes the
head of what is unread.

*The manager.* The invariant is

    ManagerInv == ManagerTypes /\ Reading /\ Beginning /\ WithinLimit /\ CrashedKnown

`CrashedKnown` is not inductive: that the decoder has a product after the first word needs that this word is an event header when it
arrives, and where it comes from depends on the way of reading and on whether the first file is empty (`Beginning`,
`Reading`). `LimitKept` is not either: the loop leaves with one event too many, and `FinishDecoding` may save one that is left. It does
not both, because a decoder that has just stored forgets the header that the manager looks for (`WithinLimit`); this is where the
lemmas about a word are used a second time.
TLC checked this invariant on the inputs of the run `decoder` before it was proved.

| Theorem | States |
|---|---|
| `ManagerInvariance` | `ManagerInv` |
| `CrashedKnownAlways` | the program crashes only where `CrashedKnown` says it may |
| `LimitKeptAlways` | one event above the limit is stored and no more, which is the first part of `StoredIntact` |
| `WordsInOrderAlways` | every read takes the next word; a file is left when it is read through (an action property) |

**The analysis processor** (`AnaProcessor_proofs`), for any number of analyzers, any input and any answers.

*The analyzers*: `AnalyzersLiveOnceAlways`. Nothing of the
storage manager is used but that a call may fail. As long as analyzers are attached their
phases follow `_process`: all new while it is INIT, live from there on, also after an `initialize()`
that failed, and finalized in order; `reset()` detaches them all, so a `run()` that goes on after a
`finalize()` finds none (`LInv`).

*The events*: `EventsUnmixedAlways` and `RunAlwaysSavesAll`, from `AsksAssumption` (analyzers ask for known products) and
`JobsAssumption` (a mode of the enum and a list of files). `UInv` has the record of the storage manager in one of two
conditions. `Shut`: no file is open; if one can still be opened it is the first, since `reset()` forgets the mode. `Opened`: its
chains are those of the job's files, and it is in the middle of one of three things: `Between` events, the last one seen
not being written until the next is asked for; `During` one, which is read and not yet analysed; or behind
the loop, where `run()` has written the last event and `process_event()` may have or not. `Recorded` is what the output
trees have at all times: the events analysed, in their order, up to the one written last, and all of
them for a product of the input. Each function of the storage manager has its lemma, here with contents.

*`run()`*: `RunFinalizesOnceAlways`, for programs that only call `run()` on trees that agree, also from
`MaxArgAssumption`. `RInv` adds `RunSteps`: the loop keeps inside of the input (`Inside`), so that no `go_to()` is
refused but one that starts behind its end, and `process_event()` never finalizes in the middle of it.

| Theorem | States |
|---|---|
| `AnalyzersLiveOnceAlways` | no analyzer is initialized or finalized twice, or used outside of the two |
| `EventsUnmixedAlways` | analyzers see, and output trees have, one event at a time, the one asked for |
| `RunAlwaysSavesAll` | a `run()` that came to its end leaves all events analysed in the file (an action property) |
| `RunFinalizesOnceAlways` | its loop ends at the last event asked for, still processing |

**Storage** (`StorageClient_proofs`), for any files, product types and programs. The assumptions are about these:
`SessionsAssumption`, that the program asks for known types only, gives lists of files and has events to
write; `EventIdAssumption`, that every event of a file has a number; `ContentAssumption`, that files have
sequences of events. The functions of `storage_manager` are
operators on its record, so each has a lemma (`CloseLemma`, `OpenLemma`, `NextEventLemma`,
`GoToLemma`, `GetDataLemma`), and the steps cite them. The invariant `SInv` needs that a closed object has
no trees and empty ones (`Good`), for a second `open()` that follows `close()` without `reset()`, and that a
tree has its buffer, so that `get_data()` never makes a tree twice.

That is counting. The second part is about what is in the entries, and adds to `SInv`

    AInv == SInv /\ Sound(st) /\ ...

`Sound` says of an open object that its index and its number of events are `Within` every chain, also when the number is that
of an earlier `open()`, and of a closed one that nothing is left in its buffers. What is in the buffers depends on the mode: in READ mode the
products fetched for this event are of its entry and number (`FetchedOne`), in the others they are empty or of
the current event (`Buffered`), and two output trees agree when they are laid end to end (`Aligned`).
Trees that are made late are why it has to be said from the end.

| Theorem | States |
|---|---|
| `WrittenAsReadAlways` | in BOTH mode each event read is written once, when the next is asked for |
| `FileIsAlwaysComplete` | a file that is closed has an entry per event written since the tree was made |
| `LoopWithinTreesAlways` | no tree is asked for an entry that it has not |
| `ProductsOfOneEventAlways` | in READ mode the products of one event have one number |
| `OutputAlignedAlways` | entries of two output trees that are equally far from the end are of one event |

**`SequenceLemmas`** is what these proofs share. The library's induction theorems take an operator, which the
provers cannot give them; here an induction is about a set of numbers (`SetInduction`), a
recursion about a function on pairs whose values are the step (`FiniteRecursion`), and both rest on
`LeastNumber`. From there it has what `FlattenSeq` makes of a sequence of sequences, and that the members of a finite
set have ranks `0 .. m-1` in any total order, each once (`RankedOnce`), what the k-th smallest of a set of
numbers is (`KthSmallestOf`) and what an insertion makes of a sequence (`Inserted`).

*Only model-checked:*

- The decoder manager, `IntactAllStored`, `StoredIntact` (but its limit) and `DebugLosesOnlyHit`. They compare the files
  with the packets that were sent, and so rest on the format of a packet: what a module's checksum and counts are,
  and in which order its halves come. That is the construction of the inputs in `MCDecoder`, a recursion over the channels and samples
  of a module, and a proof would be an induction along it for each decoder and each place of a loss.
- All liveness (`Returns`, `LoopEnds`, `Attended`), which the prover does not do under fairness.

## 5. Where code and documentation disagree

Three runs have TLC find a state or a behaviour that a comment excludes:

- `ana_last`: a loop over `process_event()` in BOTH mode does not write its last event.
  At the end of the input `process_event()` calls `finalize()` without the last
  `next_event()` that `run()` makes (`ana_processor.cc:149` and `:196`).
- `full_message`: a request is answered before it has come in full, or is completed
  by what an earlier one left in the buffer (`SocketServer.cc:176`, against `:160`).
- `lockup`: the send is not non-blocking, and one silent viewer holds the server
  (`SocketServer.cc:251`, against `:239`).

Seen while modelling, not runs of their own:

- With AND and OR mixed, `Bool` leaves its loop although a later
  algorithm of the other kind would change the answer (`CBAlgoArray.cc:69`, against `.hh:90`).
- The product of scores is always zero, as it starts from zero
  (`CFAlgoArray.cc:36` and `CPAlgoArray.cc:36`, against `CFAlgoArray.hh:43`).
- From the second iteration on `IterationBegin` of the merging algorithm gets the clusters of before the
  first merge (`CMergeManager.cc:81`, against `CMAlgoBase.hh:54`); and what was
  separated in one iteration is not remembered in the next.
- A second `open()` without `reset()` succeeds on files without any tree, since
  `_nevents` of the first is still there (`storage_manager.cc:339`).
- `EventBegin` of the match algorithm is never called (`CMatchManager.cc:35`).
- A comment says that negative priorities are dropped; zero is too (`CMManagerBase.cc:157`).
- `initialize()` sets `_index` to 0 in the middle of a call that has set it
  (`ana_processor.cc:105`); `FINISHED` is overwritten before anyone sees it (`:232`).
- `ShutDown` leaves the highest descriptor open (`SocketServer.cc:41`); a request
  longer than the buffer is never sufficient; viewers whose requests wait while
  another answer is composed for over 15 seconds are closed as bugged, and the scan
  prefers low descriptors; `Listen` returns -1 for a timeout as for an error.
- `add_process()` after `initialize()` leaves the status vector too short (`ana_processor.hh:89`).

In the decoders and their manager:

- One event more than the limit is stored (`decoder_manager.cc:142`, against
  `decoder_manager.hh:61`), and the event that is left at the end is stored by the manager, with the number of the
  event before (`decoder_manager.cc:166`).
- With blocks of a fixed size the end of file is known while the words of the last, short block wait, and
  they are never decoded (`bin_io_handler.cc:252`). With sized blocks the first word of an
  empty buffer is taken at the end, and an empty file is one empty word to the decoder.
- `decoder_manager::run()` returns true when `initialize()` fails (`decoder_manager.cc:208`).
- A module header is accepted after any word, as the class of the last word is computed from this one
  (`algo_fem_decoder_base.cc:226`); the exception of `roll_over()` leaves before the
  recovery of debug mode; the counts of a TPC event with several modules are those of the last module.
- A header word of the TPC lost before the first event's is met with a null product
  (`algo_tpc_xmit.cc:288`); a lost event header makes one event of two.
- A PMT readout that follows another without a break loses its first header word or sample
  (`algo_pmt_xmit.cc:328`).
- Trigger words have no checksum: one word lost in each of two consecutive triggers may
  store a mixture of both. Its `is_event_empty` is always true, so that nothing is said of words left over.
- The older PMT decoder keeps what a failed event left in its product, and a header that
  lacks a word is completed from the next: in debug mode the events after it in the
  packet are lost. No number is ever set, so the last event is not looked at.
  Its padding word reads in front of the channels when there are none. A last word lost together with the
  padding before it is not noticed (the counts may be one too few, the checksum 0x8000).
- The Huffman decoders make each module an event. After a failure they search for the next event header
  that follows an event last word, so that a lost word costs the modules behind it in
  the packet too, and, if the searched word or a header word of the last module is hit, the next packet. Without that event last word the next event
  header becomes two samples of 0xffff, of which 0xfff is kept, while their class is that of a header: a module that does not count its last word has been
  stored by then, the header behind is accepted, and nothing is lost. A
  missing last word of channel 63 is tolerated by the checksum's correction. An event that fails to be
  stored at the event last word is not reported.
- The supernova decoder stores an event whose header was incomplete under no number.

In the event builder:

- A stream other than the master that skips to its last entry is ended with it, and the entry is not built: the event
  is stored without that stream's data (`evb_algo_base.cc:155`, against `event_builder.cc:116`, "Save if
  all stream gets processed correctly"). `NeverTorn` names this case.
- The master is never asked `check_event_quality()` (`event_builder.cc:139`, against the comment at line 165, "Check", and what
  the TPC algorithm does there): with the TPC as master an event with missing modules, or too many, is stored. `MissingModulesNoticed` names this case.
- In debug mode with the PMTs as master, an event with a missing module is built and thrown out
  for ever (`evb_algo_pmt.cc:107`); `Returns` leaves the case aside.
- `_fout` is never initialized (`event_builder.cc:225`): a program that sets no analysis
  output may crash at the end of a run.

## 6. What is not modelled, and the plan

Inside the modelled components: ROOT's own behaviour beyond sequences of entries,
the splitting of output files at 1 GB, printing and timing, the analysis output file, the
products MCNeutrino and MCTrajectory (for which the code makes no object); exceptions, signals and
the exit path of the server; allocation failure everywhere.

Not modelled at all: floating-point geometry and fits, detector constants, drawing,
analyses that fill histograms, the vendored neural network. They are functions of one
call without control to speak of. Where their answer steers a modelled part it is a free choice.

The score and priority arrays (`CFAlgoArray`, `CPAlgoArray`) add, multiply or take the last of
the scores that they are given; whatever they answer is among the answers the managers' models choose from.

Left out of the modelled readout: `xmit_event_search` and `bin_word_search`, which print words; the ASCII
format and the writing of binary files; the FIFO overflow check of the PMT decoder, which is off
by default; the beam-gate correction, whose calls are commented out; what `finalize()` of the event
builder's algorithms plots.

The modules were written in the order: book keeper and partition, their proofs; storage
manager and its client; analysis processor; merge and match managers; array and
its proof; server; decoders, from the base class to the supernova stream, with the manager;
event builder; the proofs of the server, the event builder, the processor, storage and `Combine`; those of the merge and match
managers, of what storage and the processor have in their entries, and of the event builder's counts and
agreement; those of the decoder manager, word by word. What the plan has left, in order:

1. Proofs: the part of `StoredIntact` about numbers, for a format of packets stated as an assumption on the jobs.
2. `bin_word_search` and `xmit_event_search` on the reader that is modelled; the ASCII format.
3. `algo_threshold`, a state machine over the samples of one pulse; the zero suppression of the
   supernova compression, which keeps state across blocks; the retries of
   `DBConn::Connect`.
