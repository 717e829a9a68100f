------------------------------ MODULE Playback ------------------------------
(***************************************************************************)
(* The playback plugin of gst_playd (src/src/operations/play.c): PLAY,     *)
(* STOP and the teardown of the plugin, run by the main thread, against    *)
(* the GStreamer streaming threads that announce the pads of each source.  *)
(*                                                                         *)
(* A source gets a serial number, its position in `log', which stands for  *)
(* its two GStreamer elements (uridecodebin and audioconvert) and for the  *)
(* request pad its audioconvert holds on the mixer.  The C struct          *)
(* source_item is named by its address, because the code hashes that       *)
(* address and malloc may hand it out again.                               *)
(*                                                                         *)
(* g_error() aborts the process: `fate' says whether that happened.        *)
(***************************************************************************)
EXTENDS Integers, SequencesExt

CONSTANTS
  Uris,       \* what a client may ask to PLAY
  Addrs,      \* the addresses malloc can return for a source_item
  NULL,       \* the null pointer
  Streams,    \* the streams GStreamer finds behind each URI, in pad order
  Hash,       \* g_str_hash of "<uri> 0x<item> <created_at>"
  IdModulus,  \* a player id is a guint: 2^32 in the program
  Params,     \* what atoll() makes of the parameter of a STOP
  MaxPlays,   \* bound: the number of PLAYs
  MaxClock    \* bound: the seconds that pass

ASSUME PlaybackAssumption ==
  /\ MaxPlays \in Nat /\ MaxClock \in Nat /\ IdModulus \in Nat \ {0}
  /\ Params \subseteq Int /\ NULL \notin Addrs
  /\ Streams \in [Uris -> Seq({"audio", "video"})]
  /\ Hash \in [Uris \X Addrs \X (0..MaxClock) -> 0..(IdModulus - 1)]

VARIABLES
  fate,       \* "running", or what g_error aborted: "load", "unload", "pad"
  pc, cur,    \* the main thread: where it is, the address of the item it has
  target,     \* its local target: what PLAY is about to set to PLAYING
  sink,       \* its local mux_sink: a serial, 0 for NULL
  iter,       \* the cell op_playback_free has reached, 0 outside of it
  clock,      \* the current second
  log,        \* the source_items made so far: uri, address, created_at
  heap,       \* the serial of the item at each address, 0 when it is free
  sources,    \* ctx->sources: addresses, the newest first
  reply,      \* the last reply: operation, verb and player id
  pipe,       \* the pipeline's current and pending state
  inBin,      \* the sources whose elements are children of the pipeline
  playing,    \* the sources whose uridecodebin was taken to PAUSED or PLAYING
  muxPads,    \* the request pads that exist on the mixer
  muxLinked,  \* the sources whose audioconvert is linked to the mixer
  decLinked,  \* the sources whose uridecodebin is linked to its audioconvert
  shown       \* how many pads each uridecodebin has announced

mainVars == <<pc, cur, target, sink, iter, reply>>
itemVars == <<log, heap, sources>>
gstVars  == <<pipe, inBin, playing, muxPads, muxLinked, decLinked, shown>>
vars     == <<fate, clock, mainVars, itemVars, gstVars>>

Serials == 1..MaxPlays
Starting == {"added", "uri", "start", "go"}
Freeing == {"play", "unlink", "release", "remove"}

Idle   == [current |-> "NULL", pending |-> "VOID"]
Async  == [current |-> "PAUSED", pending |-> "PLAYING"]
Lost   == [current |-> "PAUSED", pending |-> "PAUSED"]
Failed == [current |-> "PAUSED", pending |-> "VOID"]
Up     == [current |-> "PLAYING", pending |-> "VOID"]

(* The id of a source: a hash of its URI, its address and its second.      *)
(* Mutant: the address is left out.                                        *)
IdWithoutAddress(k) ==
  Hash[<<log[k].uri, CHOOSE a \in Addrs : TRUE, log[k].created>>]

ItemId(k) == Hash[<<log[k].uri, log[k].addr, log[k].created>>]

(* The source in the i-th cell of the list. *)
Item(i) == heap[sources[i]]

Init ==
  /\ fate = "running" /\ clock = 0
  /\ pc = "idle" /\ cur = NULL /\ target = "element" /\ sink = 0 /\ iter = 0
  /\ log = <<>> /\ heap = [a \in Addrs |-> 0] /\ sources = <<>>
  /\ reply = [op |-> "none", verb |-> "OK", id |-> 0]
  /\ pipe = Idle /\ inBin = {} /\ playing = {}
  /\ muxPads = {} /\ muxLinked = {} /\ decLinked = {}
  /\ shown = [k \in Serials |-> 0]

(* The main thread is at l in a process that has not aborted. *)
At(l) == fate = "running" /\ pc = l

-----------------------------------------------------------------------------
(* PLAY.  The item is allocated, its audioconvert joins the pipeline and   *)
(* takes a request pad of the mixer, then its uridecodebin joins ...       *)
SourceNew(u, a) ==
  LET k == Len(log) + 1 IN
  /\ At("idle") /\ k \in Serials /\ heap[a] = 0
  /\ log' = Append(log, [uri |-> u, addr |-> a, created |-> clock])
  /\ heap' = [heap EXCEPT ![a] = k]
  /\ inBin' = inBin \cup {k}
  /\ muxPads' = muxPads \cup {k}
  /\ muxLinked' = muxLinked \cup {k}
  /\ pc' = "added" /\ cur' = a
  /\ UNCHANGED <<fate, clock, target, sink, iter, reply, sources>>
  /\ UNCHANGED <<pipe, playing, decLinked, shown>>

(* ... and only now gets its URI ... *)
SourceUri ==
  /\ At("added")
  /\ pc' = "uri"
  /\ UNCHANGED <<fate, clock, cur, target, sink, iter, reply, itemVars, gstVars>>

(* ... and after that the callback for its pads.                           *)
SourceConnect ==
  /\ At("uri")
  /\ pc' = "start"
  /\ UNCHANGED <<fate, clock, cur, target, sink, iter, reply, itemVars, gstVars>>

(* The pipeline is the target unless it plays or is on its way there; it   *)
(* may have moved on when the target is set to PLAYING.                    *)
(* Mutant: every source starts on its own.                                 *)
AlwaysElement == "element"

Target ==
  IF pipe.pending # "PLAYING" /\ pipe.current # "PLAYING"
  THEN "pipeline" ELSE "element"

SourceTarget ==
  /\ At("start")
  /\ target' = Target
  /\ pc' = "go"
  /\ UNCHANGED <<fate, clock, cur, sink, iter, reply, itemVars, gstVars>>

(* gst_element_set_state: the pipeline takes its children along, a source  *)
(* goes alone.                                                             *)
SetPlaying ==
  \/ /\ target = "pipeline"
     /\ playing' = playing \cup inBin /\ pipe' = Async
  \/ /\ target = "element"
     /\ playing' = playing \cup {heap[cur]} /\ UNCHANGED pipe

(* op_play_parse lists the source and replies. *)
SourceStart ==
  /\ At("go")
  /\ SetPlaying
  /\ sources' = Cons(cur, sources)
  /\ reply' = [op |-> "PLAY", verb |-> "OK", id |-> ItemId(heap[cur])]
  /\ pc' = "idle" /\ cur' = NULL /\ target' = "element"
  /\ UNCHANGED <<fate, clock, sink, iter, log, heap>>
  /\ UNCHANGED <<inBin, muxPads, muxLinked, decLinked, shown>>

(* The change to PLAYING fails: g_error, and nobody sees a reply. *)
SourceStartFails ==
  /\ At("go")
  /\ fate' = "load"
  /\ UNCHANGED <<clock, mainVars, itemVars, gstVars>>

-----------------------------------------------------------------------------
(* source_item_from_id: the first item in the list that has the id.        *)
(* Mutant: the last one.                                                   *)
FoundLast(i, id) ==
  /\ ItemId(Item(i)) = id
  /\ \A j \in DOMAIN sources : j > i => ItemId(Item(j)) # id

Found(i, id) ==
  /\ ItemId(Item(i)) = id
  /\ \A j \in 1..(i - 1) : ItemId(Item(j)) # id

(* The list without its i-th cell.  Mutant: the item stays listed.         *)
StillListed(i) == sources

Without(i) == RemoveAt(sources, i)

(* STOP.  The parameter is cut to a guint, and the item with that id       *)
(* leaves the list and is freed.                                           *)
StopUnknown(n) ==
  /\ At("idle")
  /\ \A i \in DOMAIN sources : ItemId(Item(i)) # n % IdModulus
  /\ reply' = [op |-> "STOP", verb |-> "FAIL", id |-> 0]
  /\ UNCHANGED <<fate, clock, pc, cur, target, sink, iter, itemVars, gstVars>>

StopFound(n) ==
  /\ At("idle")
  /\ \E i \in DOMAIN sources :
       /\ Found(i, n % IdModulus)
       /\ cur' = sources[i]
       /\ sources' = Without(i)
  /\ pc' = "play"
  /\ UNCHANGED <<fate, clock, target, sink, iter, reply, log, heap, gstVars>>

(* The mixer's pad that the audioconvert of source k is linked to.         *)
(* Mutant: it is looked up when the chain is already taken apart.          *)
PeerAfterUnlink(k) == IF k \in muxLinked \ {heap[cur]} THEN k ELSE 0

Peer(k) == IF k \in muxLinked THEN k ELSE 0

(* source_free_and_unlink: the element is set to PLAYING and the pad the   *)
(* audioconvert holds on the mixer is looked up ...                        *)
FreePlay ==
  /\ At("play")
  /\ playing' = playing \cup {heap[cur]}
  /\ sink' = Peer(heap[cur])
  /\ pc' = "unlink"
  /\ UNCHANGED <<fate, clock, target, cur, iter, reply, itemVars>>
  /\ UNCHANGED <<pipe, inBin, muxPads, muxLinked, decLinked, shown>>

FreePlayFails ==
  /\ At("play")
  /\ fate' = "unload"
  /\ UNCHANGED <<clock, mainVars, itemVars, gstVars>>

(* ... the chain uridecodebin - audioconvert - mixer is taken apart ... *)
FreeUnlink ==
  /\ At("unlink")
  /\ muxLinked' = muxLinked \ {heap[cur]}
  /\ decLinked' = decLinked \ {heap[cur]}
  /\ pc' = "release"
  /\ UNCHANGED <<fate, clock, cur, target, sink, iter, reply, itemVars>>
  /\ UNCHANGED <<pipe, inBin, playing, muxPads, shown>>

(* ... the mixer's request pad is released ... *)
FreeRelease ==
  /\ At("release")
  /\ muxPads' = muxPads \ {sink}
  /\ pc' = "remove"
  /\ UNCHANGED <<fate, clock, cur, target, sink, iter, reply, itemVars>>
  /\ UNCHANGED <<pipe, inBin, playing, muxLinked, decLinked, shown>>

(* op_playback_free goes from cell to cell.  Mutant: it does not.          *)
SameCell == iter

NextCell == iter + 1

(* ... and the elements leave the pipeline, which cuts what a late pad may *)
(* have linked again, and the item is freed.  STOP then replies;           *)
(* op_playback_free goes on to the next cell.                              *)
FreeRemove ==
  /\ At("remove")
  /\ inBin' = inBin \ {heap[cur]}
  /\ decLinked' = decLinked \ {heap[cur]}
  /\ heap' = [heap EXCEPT ![cur] = 0]
  /\ \/ /\ iter = 0
        /\ pc' = "idle" /\ iter' = 0
        /\ reply' = [op |-> "STOP", verb |-> "OK", id |-> ItemId(heap[cur])]
     \/ /\ iter # 0
        /\ pc' = "next" /\ iter' = NextCell /\ UNCHANGED reply
  /\ cur' = NULL /\ sink' = 0
  /\ UNCHANGED <<fate, clock, target, log, sources>>
  /\ UNCHANGED <<pipe, playing, muxPads, muxLinked, shown>>

-----------------------------------------------------------------------------
(* op_playback_free: every listed item is freed, the cells stay until the  *)
(* end, then the pipeline is put to READY and dropped.                     *)
FreeAll ==
  /\ At("idle")
  /\ pc' = "next" /\ iter' = 1
  /\ UNCHANGED <<fate, clock, cur, target, sink, reply, itemVars, gstVars>>

FreeNext ==
  /\ At("next") /\ iter <= Len(sources)
  /\ cur' = sources[iter]
  /\ pc' = "play"
  /\ UNCHANGED <<fate, clock, target, sink, iter, reply, itemVars, gstVars>>

FreeDone ==
  /\ At("next") /\ iter > Len(sources)
  /\ sources' = <<>>
  /\ pipe' = Idle
  /\ pc' = "done"
  /\ UNCHANGED <<fate, clock, cur, target, sink, iter, reply, log, heap>>
  /\ UNCHANGED <<inBin, playing, muxPads, muxLinked, decLinked, shown>>

-----------------------------------------------------------------------------
(* A uridecodebin links to its audioconvert when any pad it has shown so   *)
(* far is audio, the audioconvert is not taken and both have one parent.   *)
(* Mutant: there is one audioconvert for all sources.                      *)
LinkableOnce(k) ==
  /\ k \in inBin /\ decLinked = {}
  /\ \E i \in 1..(shown[k] + 1) : Streams[log[k].uri][i] = "audio"

Linkable(k) ==
  /\ k \in inBin /\ k \notin decLinked
  /\ \E i \in 1..(shown[k] + 1) : Streams[log[k].uri][i] = "audio"

(* A streaming thread announces the next pad of source k and runs          *)
(* on_new_source_pad_link, for which not to link is fatal.                 *)
PadAdded(k) ==
  /\ fate = "running"
  /\ k \in playing /\ shown[k] < Len(Streams[log[k].uri])
  /\ shown' = [shown EXCEPT ![k] = @ + 1]
  /\ \/ /\ pc = "uri" /\ k = heap[cur]   \* nothing is connected yet
        /\ UNCHANGED <<fate, decLinked>>
     \/ /\ ~(pc = "uri" /\ k = heap[cur]) /\ Linkable(k)
        /\ decLinked' = decLinked \cup {k}
        /\ UNCHANGED fate
     \/ /\ ~(pc = "uri" /\ k = heap[cur]) /\ ~Linkable(k)
        /\ fate' = "pad"
        /\ UNCHANGED decLinked
     \/ /\ k \notin inBin   \* the callback holds a dangling audioconvert
        /\ UNCHANGED <<fate, decLinked>>
  /\ UNCHANGED <<clock, mainVars, itemVars>>
  /\ UNCHANGED <<pipe, inBin, playing, muxPads, muxLinked>>

(* GStreamer finishes an asynchronous change of the pipeline and takes the *)
(* children along; an element that joined in the meantime may be missed,   *)
(* and is when it has no URI ...                                           *)
PipelineUp ==
  /\ fate = "running" /\ pipe \in {Async, Lost}
  /\ pipe' = Up
  /\ \E missed \in SUBSET {k \in inBin : pc \in Starting /\ k = heap[cur]} :
       /\ pc = "added" => missed # {}
       /\ playing' = playing \cup (inBin \ missed)
  /\ UNCHANGED <<fate, clock, mainVars, itemVars>>
  /\ UNCHANGED <<inBin, muxPads, muxLinked, decLinked, shown>>

(* ... or the change fails on an element that had no URI when it was met.  *)
PipelineFails ==
  /\ fate = "running" /\ pc \in Starting /\ pipe \in {Async, Lost}
  /\ pipe' = Failed
  /\ UNCHANGED <<fate, clock, mainVars, itemVars>>
  /\ UNCHANGED <<inBin, playing, muxPads, muxLinked, decLinked, shown>>

(* A source that starts in a playing pipeline pulls it back to PAUSED      *)
(* until the source has prerolled. *)
PipelineLost ==
  /\ fate = "running" /\ pipe = Up
  /\ \E k \in playing \cap inBin : shown[k] = 0
  /\ pipe' = Lost
  /\ UNCHANGED <<fate, clock, mainVars, itemVars>>
  /\ UNCHANGED <<inBin, playing, muxPads, muxLinked, decLinked, shown>>

Second ==
  /\ fate = "running" /\ clock < MaxClock
  /\ clock' = clock + 1
  /\ UNCHANGED <<fate, mainVars, itemVars, gstVars>>

-----------------------------------------------------------------------------
(* The steps the main thread takes to the end of a handler it has begun.   *)
Handler ==
  \/ SourceUri \/ SourceConnect \/ SourceTarget
  \/ SourceStart \/ SourceStartFails
  \/ FreePlay \/ FreePlayFails \/ FreeUnlink \/ FreeRelease \/ FreeRemove
  \/ FreeNext \/ FreeDone

Request ==
  \/ \E u \in Uris, a \in Addrs : SourceNew(u, a)
  \/ \E n \in Params : StopUnknown(n) \/ StopFound(n)
  \/ FreeAll

GStreamer ==
  \/ \E k \in Serials : PadAdded(k)
  \/ PipelineUp \/ PipelineFails \/ PipelineLost

Next == Handler \/ Request \/ GStreamer \/ Second

Spec == Init /\ [][Next]_vars

(* A handler is plain C that never waits: it runs on. *)
FairSpec == Spec /\ WF_vars(Handler)

-----------------------------------------------------------------------------
TypeOK ==
  /\ fate \in {"running", "load", "unload", "pad"}
  /\ pc \in {"idle", "next", "done"} \cup Starting \cup Freeing
  /\ cur \in Addrs \cup {NULL} /\ target \in {"element", "pipeline"}
  /\ sink \in 0..MaxPlays /\ iter \in Nat
  /\ clock \in 0..MaxClock
  /\ log \in Seq([uri : Uris, addr : Addrs, created : 0..MaxClock])
  /\ Len(log) <= MaxPlays
  /\ heap \in [Addrs -> 0..MaxPlays]
  /\ sources \in Seq(Addrs)
  /\ reply \in [op : {"none", "PLAY", "STOP"}, verb : {"OK", "FAIL"},
                id : 0..(IdModulus - 1)]
  /\ pipe \in {Idle, Async, Lost, Failed, Up}
  /\ inBin \subseteq DOMAIN log /\ playing \subseteq DOMAIN log
  /\ muxPads \subseteq DOMAIN log /\ muxLinked \subseteq DOMAIN log
  /\ decLinked \subseteq DOMAIN log
  /\ shown \in [Serials -> Nat]

-----------------------------------------------------------------------------
Listed == {Item(i) : i \in DOMAIN sources}

(* Nothing is used or freed after it was freed: the item a handler works   *)
(* on is allocated, and so is every item the list still leads to, once     *)
(* (op_playback_free frees items whose cells stay in the list).            *)
NoDanglingItem ==
  /\ pc \in Starting \cup Freeing => heap[cur] # 0
  /\ \A i \in DOMAIN sources : i >= iter => Item(i) # 0
  /\ \A i, j \in DOMAIN sources : i # j => sources[i] # sources[j]

(* Between requests the list, the heap, the pipeline and the mixer agree:  *)
(* no item is leaked, and in particular no request pad is left where a     *)
(* source used to be, which the NB comment of source_free_and_unlink says  *)
(* would make the mixer fault and playback stop.                           *)
MixerMatchesList ==
  pc \in {"idle", "done"} =>
    /\ inBin = Listed /\ muxPads = Listed /\ muxLinked = Listed
    /\ {heap[a] : a \in Addrs} \ {0} = Listed
    /\ decLinked \subseteq Listed

(* A PLAY that was answered has set its source going, alone or with the    *)
(* pipeline, whatever the pipeline did since its state was read; and a     *)
(* pipeline with a source in it has been started.                          *)
PipelineDriven ==
  pc = "idle" /\ sources # <<>> => Listed \subseteq playing /\ pipe # Idle

(* With a hash that never collides, two sources share an id only when      *)
(* malloc gave the address of the one to the other within the same second, *)
(* for the same URI: of the two, one is gone.                              *)
IdSharedOnlyByReuse ==
  \A j, k \in DOMAIN log : j < k /\ ItemId(j) = ItemId(k) =>
    log[j] = log[k] /\ heap[log[j].addr] # j

(* The process aborts in on_new_source_pad_link only over a source that    *)
(* has more than one audio stream to show, or over one that STOP has       *)
(* already taken out of the pipeline but left in PLAYING.                  *)
PadAbortExplained ==
  fate = "pad" => \E k \in playing :
    shown[k] > 0 /\ (Streams[log[k].uri] # <<"audio">> \/ k \notin inBin)

(* A handler that has begun, op_playback_free over all its items included, *)
(* comes to its end, unless the process aborts.                            *)
HandlerEnds ==
  pc \notin {"idle", "done"} ~> pc \in {"idle", "done"} \/ fate # "running"

(* The sources whose item is allocated. *)
Owned == {heap[a] : a \in Addrs} \ {0}

(* The inductive invariant.  The heap names each source at its address,    *)
(* the last one made there; the main thread's place fixes what cur, iter   *)
(* and sink hold; the list leads to every item but the one in hand, once;  *)
(* what is on the mixer lags behind the heap by the source in hand; listed *)
(* sources are started; a linked uridecodebin has shown a pad, and an      *)
(* abort over a pad has its reason; and the list has the newest source     *)
(* first, so that the one STOP has in hand is the newest with its id.      *)
HeapOK ==
  \A a \in Addrs : heap[a] # 0 =>
    /\ heap[a] \in DOMAIN log /\ log[heap[a]].addr = a
    /\ \A k \in DOMAIN log : log[k].addr = a => k <= heap[a]

Detached == cur \notin {sources[i] : i \in DOMAIN sources}

PlaceOK ==
  /\ pc \in {"idle"} \cup Starting => iter = 0
  /\ pc \in {"next", "done"} => iter > 0
  /\ pc = "done" => sources = <<>>
  /\ pc \in Starting \cup Freeing => cur \in Addrs /\ heap[cur] # 0
  /\ pc \in Starting \cup Freeing /\ iter = 0 => Detached
  /\ pc \in Freeing /\ iter > 0 => iter \in DOMAIN sources /\ cur = sources[iter]
  /\ pc \in {"unlink", "release"} => sink = heap[cur]

ListOK ==
  /\ \A i, j \in DOMAIN sources : i # j => sources[i] # sources[j]
  /\ \A i \in DOMAIN sources : i >= iter => Item(i) # 0
  /\ \A a \in Addrs : heap[a] # 0 =>
       \/ pc \in Starting \cup Freeing /\ a = cur
       \/ \E i \in DOMAIN sources : i >= iter /\ sources[i] = a

MixerOK ==
  /\ inBin = Owned /\ decLinked \subseteq Owned
  /\ muxLinked = {k \in Owned : ~(pc \in {"release", "remove"} /\ k = heap[cur])}
  /\ muxPads = {k \in Owned : ~(pc = "remove" /\ k = heap[cur])}

DriveOK ==
  /\ \A i \in DOMAIN sources : i >= iter => Item(i) \in playing
  /\ sources # <<>> \/ (pc = "go" /\ target = "element") => pipe # Idle

PadOK == PadAbortExplained /\ \A k \in decLinked : shown[k] > 0

OrderOK ==
  /\ pc \in Starting => heap[cur] = Len(log)
  /\ \A i, j \in DOMAIN sources : iter <= i /\ i < j => Item(i) > Item(j)
  /\ pc \in Freeing /\ iter = 0 =>
       \A i \in DOMAIN sources :
         ItemId(Item(i)) = ItemId(heap[cur]) => Item(i) < heap[cur]

IInv ==
  TypeOK /\ HeapOK /\ PlaceOK /\ ListOK /\ MixerOK /\ DriveOK /\ PadOK /\ OrderOK

(* play.c:99: the item being freed has been moved out of PLAYING before    *)
(* its elements are unlinked and removed (the message names READY).        *)
StoppedBeforeUnlink ==
  pc \in {"unlink", "release", "remove"} => heap[cur] \notin playing

(* play.c:319: a source that cannot be loaded is answered                  *)
(* "FAIL Can't load source", it does not end the server.                   *)
LoadFailureAnswered == fate # "load"

-----------------------------------------------------------------------------
(* What clients hear is the set of sources that hold a pad of the mixer,   *)
(* but for the one a PLAY has not answered yet and counting the one a STOP *)
(* has not answered yet.  Seen so, the plugin is the player of SourceSet.  *)
InPlay ==
  (muxPads \ {k \in Serials : pc \in Starting /\ k = heap[cur]})
    \cup {k \in Serials : pc = "remove" /\ k = heap[cur]}

Answered == IF pc \in Starting THEN Len(log) - 1 ELSE Len(log)

Issued == [k \in 1..Answered |-> ItemId(k)]

Player == INSTANCE SourceSet WITH
  Ids <- 0..(IdModulus - 1),
  issued <- Issued,
  heard <- InPlay,
  answer <- reply,
  closing <- iter # 0

PlayerSpec == Player!Spec
=============================================================================
