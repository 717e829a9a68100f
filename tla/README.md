# A verification of gst-playd

gst-playd is a small daemon: clients send it text commands over ZeroMQ
(`PLAY file:///home/foo/bar.mp3`, `STOP 4711`), and it mixes what they play with
GStreamer.  About 1450 lines of C.  This directory holds TLA+ models of it, the
TLC configurations that check them on small instances, and theorems about them
that TLAPS proves for every instance.

All paths below are those of the repository; line numbers are those of the
source files there.

## The system

| part | source | state it keeps | operations |
| --- | --- | --- | --- |
| playback plugin | `src/operations/play.c` | pipeline, mixer (`mux`), the list `sources` of `source_item`s | `PLAY`, `STOP`, `DUMPGRAPH`, `op_playback_new`, `op_playback_free`; callbacks `on_new_source_pad_link`, `playback_bus_callback` |
| TAGS | `play.c:239-311`, `gst-util.c` | a private pipeline and a hash table for the length of the request | `op_tags_parse`, `tag_to_hash_table`, callback `on_new_pad_tags` |
| main loop | `gst_playd.c` | `timer_closure`: REP socket, parser, `should_quit` | `main`, `handle_incoming_messages` (every 250 ms), `handle_message`, `handle_sigint` |
| control, ping | `operations/control.c`, `ping.c` | none (`op_services` is shared) | `QUIT`, `PUBSUB`, `PING` |
| parser and registry | `parser.c` | prefix table, plugin list | `parse_message`, `parse_register_plugin`, `parse_free` |
| events | `pubsub.c`, `play.c:147-177` | PUB socket | `pubsub_send_message`, the bus callback |
| table text | `utility.c:86-112` | none | `util_hash_table_as_string` |
| base64 | `uuencode.c` | `in_buf` of `read_base64` | `uuencode`, `uuencode_get_length`; `read_base64` and `decode_base64`, which have no caller |
| client modes | `utility.c:47-84`, `gst_playd.c:204-243, 277-296`, `extras/gst-playd-client.rb` | a REQ socket, a SUB socket | one request (`-s`), event listener (`-e`), the Ruby class |

**How they interact.**  There is one thread of the program's own, the main
thread, which runs the GLib main loop.  A 250 ms timer calls
`handle_incoming_messages`, which receives, parses, handles and answers requests
until the REP socket is empty.  `parse_message` looks a command up in the table
the plugins registered in and calls the plugin's handler, which returns the
reply.  Plugins reach each other through `op_services`: `QUIT` sets `should_quit`
through it, `PING` and the playback plugin's bus callback publish on the PUB
socket.  A second group of threads belongs to GStreamer: pipeline state changes
complete there, and `on_new_source_pad_link` runs there, while the main thread is
anywhere, over data it shares without a lock.  ZeroMQ's I/O thread moves
messages to and from the REP socket.

**What is hard about it.**

- *GStreamer's threads against the main thread.*  A pad can be announced between
  any two lines of `source_new_and_link` and `source_free_and_unlink`, and after
  a source has been removed; a pipeline state change can complete in between.
- *Aborts.*  `g_error` ends the process, from the streaming threads too.
- *Order of teardown.*  The mixer's request pad must be found before the chain is
  unlinked and released after it; `op_playback_free` walks a list whose items it
  has freed; the reply to the `QUIT` that ends the daemon has to outlive the
  socket.
- *Identity.*  A player id is a hash of a URI, a heap address and a second.
  Hashes collide and `malloc` hands out addresses again.
- *Lock step.*  A REP socket must answer what it received before it receives
  again.  A signal may interrupt the send, and nobody looks at the result.
- *Several programs on a host.*  A daemon takes two ports, one beside the other, and
  does not look at the second bind; restarts, neighbours and clients that came too
  early meet there.
- *Liveness.*  The drain loop does not return while clients keep the socket busy,
  and `TAGS` waits with no time limit: nothing else is served, and no signal is
  handled, meanwhile.

`PROJECT.json` lists these hazards one by one, at their lines, with the
properties that cover them.

## Modules

| module | about |
| --- | --- |
| `Playback` | `PLAY`, `STOP` and unloading, line by line where another thread can come between, against GStreamer's threads |
| `SourceSet` | what the playback plugin promises: the set of sources heard, and the answers |
| `MCPlayback` | the instance of `Playback` that TLC checks |
| `PlaybackProofs` | the inductive invariant of `Playback`, its consequences, and that it implements `SourceSet` |
| `MainLoop` | the process from its sockets to its exit: timer, drain, signals, `QUIT`, teardown; clients and the network as its environment |
| `ReqRep` | what a client may count on: one request, one answer |
| `MCMainLoop` | the instance of `MainLoop` that TLC checks |
| `Daemon` | the two together, with clients: `MainLoop` with `Playback` as the handler of PLAY and STOP |
| `Jukebox` | what clients may count on together: each PLAY and STOP takes effect at one moment, on a `SourceSet` |
| `MCDaemon` | the instance of `Daemon` that TLC checks |
| `DaemonProofs` | the inductive invariant of `MainLoop`, lock step, and that it implements `ReqRep`; then the invariant of `Daemon`, that its parts are `MainLoop` and `Playback`, and that it implements `Jukebox` |
| `Parser` | registration of plugins, the split of a message into command and parameter, its dispatch, unloading |
| `MCParser` | the instances of `Parser` that TLC checks |
| `ParserProofs` | the split for messages of any length, the inductive invariant of `Parser`, and its consequences |
| `Tags` | a TAGS request: its messages and pads against the loop that takes them, the table of tags, the answer |
| `MCTags` | the instance of `Tags` that TLC checks |
| `TagsProofs` | the inductive invariant of `Tags` |
| `TableText` | the text of a table: measured, printed into a buffer, and read by the Ruby client |
| `MCTableText` | the instance of `TableText` that TLC checks |
| `TableTextProofs` | the buffer is large enough for any table, holds all of it, and the client's reading of it |
| `Events` | the programs on a host: daemons and their ports, listeners (`-e`), one-shot clients (`-s`), and events from GStreamer's bus to a listener's output |
| `Feed` | what a listener may count on: events of one daemon at a time, in order, and which may be missing |
| `MCEvents` | the instance of `Events` that TLC checks |
| `EventsProofs` | the inductive invariant of `Events`, its consequences, and that it implements `Feed` |
| `Base64` | the encoder into its caller's buffer, and the stream decoder |
| `MCBase64` | the instance of `Base64` that TLC checks |
| `Base64Proofs` | the encoder and the decoder stay within their buffers, a stream may be cut anywhere, and what is encoded is read back |
| `SequenceLemmas` | induction, recursive functions, concatenation and search on sequences: what the other proofs cite |

### Playback

A source is known by its serial number, its place in `log`; the serial also
stands for its two elements and for the request pad of the mixer that its
`audioconvert` holds.  The C `source_item` is known by its address: `heap` says
which source lives at an address, and `sources` is a list of addresses, as in C.
So a dangling pointer is an address whose `heap` entry is 0 or another source.
`log` is history: the model needs it to speak of items that are gone.

The main thread's `pc` has a value for each point at which another thread can
observe or disturb it:

| `pc` | main thread is at | next action |
| --- | --- | --- |
| `idle` | between requests | `SourceNew`, `StopUnknown`, `StopFound`, `FreeAll` |
| `added` | `play.c:78`, element in the pipeline without a URI | `SourceUri` |
| `uri` | `play.c:79`, URI set, `pad-added` not connected | `SourceConnect` |
| `start` | `play.c:81`, about to read the pipeline's state | `SourceTarget` |
| `go` | `play.c:89`, target chosen | `SourceStart`, `SourceStartFails` |
| `play` | `play.c:98`, head of `source_free_and_unlink` | `FreePlay`, `FreePlayFails` |
| `unlink` | `play.c:111`, pad looked up | `FreeUnlink` |
| `release` | `play.c:113` | `FreeRelease` |
| `remove` | `play.c:115` | `FreeRemove`, which replies or goes to the next cell |
| `next` | `play.c:227`, the loop of `op_playback_free` | `FreeNext`, `FreeDone` |
| `done` | `op_playback_free` has returned | none |

Lines 65-77 are one step: an element that is not yet in a started pipeline
announces nothing, and the `audioconvert` alone has no effect.
`iter` is the cell `op_playback_free` has reached, 0 in `STOP`.

GStreamer is in `PadAdded` (a streaming thread announces the next pad of a source
and runs the callback), `PipelineUp`, `PipelineFails` and `PipelineLost` (the
pipeline's asynchronous state changes).  These are external: they say what the
libraries may do as far as the code depends on it.  The choices made there:

- A source whose decoder was set to PLAYING goes on announcing pads after it was
  removed from the pipeline, because line 98 leaves it in PLAYING and nothing
  moves it to NULL.
- `gst_element_link` of line 60 succeeds if some announced pad is audio, the
  `audioconvert` is free and both are children of one pipeline.  Otherwise the
  process aborts.  For a removed source the callback's `audioconvert` may be
  freed memory, and both outcomes are possible.
- A pipeline state change may miss an element that joins while it happens, and
  fails on one that has no URI yet.  `gst_element_set_state` fails when it likes.
- A source that starts while the pipeline plays may pull the pipeline back to
  PAUSED until it has prerolled.

The hash is a constant, any function: the program's `g_str_hash` is one such.  What it
hashes is printed into a buffer of 2048 bytes without a bound (`play.c:125-126`), which a
URI of about that length overruns; URIs have no length here, and this is not modelled.

### MainLoop

The main thread's `pc`: `start` (sockets are being made), `poll` (in the GLib
loop), `recv`, `parse`, `tags`, `send` (in the drain loop), `free`, `close`,
`term` (after `g_main_loop_run`), `exited`, `aborted`.  `link[c]` says where the
request of client `c`, or its reply, is: `idle`, `wire`, `queued` at the socket,
`taken` by the program, `sent`, `lost`.

A command is one of five kinds, which is all the loop can tell apart: `JUNK`
(refused by the parser), `PING` (always succeeds; `PUBSUB` and `DUMPGRAPH` are
like it), `QUIT`, `PLAY` (the playback plugin, which may fail or abort) and `TAGS`
(may fail, abort, or not return).  The kind is what the parser makes of the text:
a bare `STOP`, which the regular expression splits into `STO` and `P`, is `JUNK`.

A signal may arrive at any time.  An EINTR of `zmq_msg_recv`, which does not wait
(`ZMQ_DONTWAIT`), makes `handle_message` return 0 and the loop call it again
(`gst_playd.c:87-90`): nothing has changed, so it is no step of the model and no property
speaks of it.  Nobody looks at the results of the two other calls that a signal
may interrupt.  While `zmq_msg_send` runs, `SendInterrupted` leaves the socket owing a
reply (`owed`), and every later `recv` fails with EFSM, which ends the drain like
EAGAIN does.  While `zmq_ctx_destroy` waits for what is still to be sent,
`TerminateInterrupted` ends the process with its replies unsent.  `sock = "leaked"` is the
socket that could not be bound: the program forgets it without closing it and runs on.

`g_error` may end the process wherever the main thread is: while the playback plugin is
registered (`RegisterAborts`), in a handler or in the unloading (`ParseAborts`,
`TagsEnd`, `Unload`), and from a streaming thread (`StreamAborts`) once a command was
handled that leaves such threads behind (`threads`): PLAY, whose pipeline runs on, and
TAGS, whose pipeline nobody takes down.

### Daemon

`MainLoop` has the handler of PLAY and STOP as one step with any verb for its result,
and `Playback` takes requests from nowhere.  `Daemon` extends the one and has the other
as an instance, `Plugin == INSTANCE Playback WITH pc <- place, cur <- item`, so that the
main thread is at `pc` in the loop and at `place` in the plugin.  While `pc` is `parse`
or `free`, the plugin takes as many steps as it needs, with GStreamer's threads in
between; the step that returns is the loop's `Parse` or `Unload`, with the verb of the
plugin's reply, and one that aborts ends the process.

| action | code |
| --- | --- |
| `Request` | a client asks for one of its `Wishes`: a command and its parameter |
| `Handle` | `parse_message` in `op_play_parse` or `op_stop_parse`; `Call` begins it, with the request's parameter |
| `HandleOther` | `parse_message` with another command |
| `Answer` | `Send` with the text of the reply; a client's `wish` and `text` go when it has its reply (`Settle`) |
| `FreePlugin` | `op_playback_free`, from `parse_free` |
| `Threads`, `TagsThread` | GStreamer's, of the daemon's pipeline and of one that a TAGS left behind (`tagged`) |
| `Loop` | all else that `MainLoop` and its environment do |

### Parser

`pc` is `load` while main registers the plugins (`gst_playd.c:309-311`), `serve`
and `reply` while messages are parsed and answered, `free` within `parse_free`,
then `done`, or `aborted` when a plugin's `plugin_new` runs into `g_error`
(`RegisterAborts`; only `op_playback_new` can).  `list` is `plugin_list`, `table` is
`message_table` with the plugin in place of the `reg_entry_with_ctx`, and `ctx` says
whether a plugin's context was made and freed.  `tried` is how far main has come in
`parser_operations`, whether the plugin was accepted or not: main ignores what
`parse_register_plugin` returns.  `called` is the message in hand and what became
of it.

| action | code |
| --- | --- |
| `Register`, `RegisterAborts` | `parse_register_plugin`; a plugin that refuses is freed at once and leaves nothing in list or table |
| `Serve` | the rest of the daemon's start |
| `Invalid`, `Dispatch` | `parse_message`, from the C string that `handle_message` makes |
| `Reply` | the reply is sent |
| `Free`, `FreePlugin`, `Freed` | `parse_free`: the table, then plugin by plugin, then the parser |

A message is a sequence over the capitals and five more characters, which are all
that the expression `^([A-Z]+)[ ]?(.+)$` and the C string tell apart: a space, a
line end (GRegex takes LF, CR, CR LF and others for one, `.` matches none of them,
and `$` matches before one at the end), a NUL (the string ends), bytes that are not
UTF-8 (`g_regex_match` fails) and anything else.  `Splits` is the set of ways in which
the expression can match, and `Match` the one a backtracking matcher finds first.
`Understood`, `WordEnd` and `ParamStart`, which the property `HandedToOwner` is
stated with, say the same without any choice between ways.

### Tags

`posted` is all that was ever posted on the bus of the request's pipeline and
`taken` how much of it the main thread has popped, so the bus holds what is between.
`table` is `tag_table`, with `<<tag, index>>` for the key `tag_index`; `reply` is the
answer.  `Build` is `play.c:263-274`, `TakeTag` a turn of the loop with a TAG message
(`gsu_tags_to_hash_table` included: the table is the main thread's own, nobody sees
it half done), `TakeEnd` the turn that leaves the loop, and the answer.  A callback of
`on_new_pad_tags` is two steps, `PadAdded` (is the sink linked?) and `PadLink`, since
nothing keeps two streaming threads from running it at once.  `Post` is GStreamer's;
all it promises is that ASYNC_DONE takes a linked sink.  The pipeline is never taken
down, so pads and messages go on after `done`.

`TextOf` is what the formats make of a value: `%lu64` (`gst-util.c:42`) prints the
number and then "64", so that the text of an unsigned 64-bit 1 is that of 164; `%f`
rounds to six decimals; and a value of a type that is not provided for becomes the
name of its type.  Strings, dates, booleans and buffers keep what they are.

### TableText

`Measure`, `Allocate`, `Write` are the two passes of `util_hash_table_as_string`, an
entry at a time, and `Reply` is what `op_tags_parse` makes of the string.  `order` is
the order in which GLib walks the table, any one, but the same for both passes as
nothing changes the table in between.  `buf` is the buffer by position; a write past
its end makes it longer, which is what `NothingPastEnd` looks for.  `Read` is
`response_to_tag_dict` of the Ruby client (`gst-playd-client.rb:54-66`), which takes the
index out of a key and does nothing with it.  `IsTable`, the dictionary a client should
get, knows nothing of the walk: it has each value under its tag at the place of its index
among those of the tag (`Rank`, by the constant `Number`, which is what a text of digits
stands for).  `Place` is where the walk puts it.

### Events

`MainLoop` looks into one daemon; `Events` looks at several, with less inside.  A
daemon's `pc` is `off`, `plugins` (it has a PUB socket), `loop`, `recv` and `handle`
(the drain), `free` (the main loop is over), `close` (the PUB socket is closed, the
REP socket not yet), `term` (in `zmq_ctx_destroy`) and `exited`.  A client's `step` is
`off`, `asking` (its request waits to be sent), `queued`, `taken`, `answered`, and then
`ended`, `listening`, or `lost` if request or answer went down with a process.

| action | code |
| --- | --- |
| `StartPub`, `StartRep` | `pubsub_new`, whose failure ends the program with status 0; `create_server_socket`, whose failure is not looked at |
| `Dispatch` | `playback_bus_callback`, from the GLib loop; `Post` is GStreamer's part |
| `Tick`, `Take`, `Handle`, `DrainEnd`, `Signal` | the timer, its drain loop, and the signal handler |
| `ClosePub`, `CloseRep`, `Exit`, `LingerLapses`, `ExitInterrupted` | `gst_playd.c:332-339`; the last when a signal interrupts `zmq_ctx_destroy` |
| `Abort` | `g_error` anywhere, also in a streaming thread that is left when the plugins are gone |
| `Ask`, `Answer` | `util_send_reqrep_msg`, for both client modes |
| `Join`, `Hear`, `Leave` | the listener: `create_pubsub_socket`, `handle_pubsub_message`, the end |
| `Reach`, `Misdirected`, `Deliver` | ZeroMQ, which connects whenever something listens at an address |

`Publish` puts an event, a pair of the daemon and its number, into the `queue` of each
listener that is joined just then and has less than `HWM` waiting (`Spread`); or, at a
daemon that may get signals (`Disturbed`), into nobody's, as `pubsub.c:76` does not look
at what `zmq_msg_send` returns.  `queue` keeps all
that was ever sent to a listener and not lost, so that `HeardRight` can speak of order;
what is on its way are the elements behind `received`.  A program runs once: a restart is another
daemon with the same port option.

### Base64

A character is its index in the table.  `Encode` is a turn of the loop of `uuencode`,
`EncodeEnd` what follows the loop; `length` goes below 0 as in C, and a write past the
end of the buffer makes it longer.  What follows is the model's: the text goes into a
file, as it is or as lines that end with `====`, and `read_base64` reads it; or it reads
any other stream.  `Decode` is one turn of its outer loop: it fills the buffer up to
a blank, a stop character or the end of the file, decodes, and keeps what is left
(`Tail64`).  `Decoded` returns a set of one element: TLC evaluates a bound variable
once, an operator's argument again and again.

### The abstract specifications

`SourceSet` speaks of the ids given out, the sources heard, the last answer, and
whether the plugin is being unloaded.  `Playback` maps to it by
`issued <- Issued` (the ids of the sources whose PLAY was answered),
`heard <- InPlay` (the sources that hold a pad of the mixer, without the one a
PLAY is still starting and with the one whose STOP has not been answered),
`answer <- reply`, `closing <- iter # 0`.  That the STOP of an id several sources
share takes out the *newest* of them is a fact about a prepended list, a search
from its head, and the interleaving of both with removals.

`ReqRep` speaks of the status of each client.  `MainLoop` maps to it by `Status`,
`Asked` and `failing` (the process has left its main loop and unloaded the
plugins).  Only a server that is failing loses requests, and a request is answered
once, to the client that asked, with a verb its command allows.

`Jukebox` is both: a `SourceSet` with clients.  A client asks (`Ask`); at some moment
its PLAY or STOP is done (`Do`), all of it at once, by the `Play`, `Stop` or `Refuse` of
`SourceSet`, and the answer made then is what comes back (`Return`).  A service of
which this is true is called linearizable.  Requests and answers are lost (`Lose`) only
once the unloading has begun.  `Daemon` maps to it by `Stage`, `Wanted` and `Got`: a
request is *asked* until its handler has made a reply, *done* until the client has it;
of the sources it maps what `Playback` does.

`Feed` speaks of whom each listener follows, the events that are due to it, and those it
has heard.  `Events` maps to it by `joined`, `Due` (what of `queue` is behind `printed`)
and `Heard`.  The sockets, the ports an address stands for, requests, linger times and
the listener's own buffer are gone: what a daemon publishes is due at once to all who
follow it, unless a signal comes in between (`Waste`, only at a daemon in `disturbed`), and
only `Lose` and `Leave` take events back.

## What the runs check

| run | instance | states | shows |
| --- | --- | --- | --- |
| `playback_safety` | 3 PLAYs, 2 URIs, 2 addresses, 4 STOP parameters, a hash that tells only URIs apart | 1.1 M | `IInv` and what follows from it; `PlayerSpec` |
| `playback_fair` | 2 PLAYs, 2 seconds, a hash without collisions, all 8 ids and 2 more parameters | 290 k | `IdSharedOnlyByReuse`, `HandlerEnds` |
| `playback_ready` | 2 PLAYs | | *violation*: a source is unlinked while in PLAYING (`play.c:98-99`) |
| `playback_load` | 2 PLAYs | | *violation*: a source that cannot be loaded ends the daemon (`play.c:89-91, 319`) |
| `loop` | 2 clients, all 5 kinds of command | 226 k | `LockStep`, `DeafOnlyBriefly`, `IInv`, `RequestsSpec`; `QuitExits`, `Served`, `ReplyArrives` |
| `daemon` | 2 clients, one with PLAY, one with STOP and TAGS; 2 PLAYs, 2 addresses, one id for all | 518 k | `DaemonInv`, `JukeboxSpec` |
| `parser_split` | 3 plugins, 5 commands, every message of at most 5 of 7 characters | 9.3 k | `HandedToOwner`, `NoDanglingContext`, `UnloadedNewestFirst`, `IInv` |
| `tags` | 4 messages out of 4 tag lists, ERROR and ASYNC_DONE, 3 pads | 242 k | `LastListWins`, `AnsweredAtEnd`, `AbortNeedsRace`, `Answered` |
| `table_text` | tables of 0 to 4 entries, values of up to 3 of 5 characters | 80 k | `NothingPastEnd`, `StringIsTable`, `ReadsBack` |
| `events` | 2 daemons, 1 listener, 1 one-shot client, 2 adjacent ports, 2 bus messages, queues of 1, signals at one daemon | 275 k | `IInv` (with `HeardRight`), `FeedSpec`, `DeafExplained`; `NewsPublished`, `EventsArrive`, `WaitExplained` |
| `base64` | sources of up to 4 bytes out of 3, and of 7 out of 2; streams of up to 6 characters out of 5; an input buffer of 5 | 128 k | `BuffersHold`, `EncodedBits`, `Unbroken`, `DecodedBits`, `ReadsBack`, `EndsIfFed` |
| `parser_bare` | the daemon's plugins and commands | | *violation*: a command without a parameter is refused (`parser.c:104`) |

The properties of the playback plugin:

- `NoDanglingItem`: the item in hand is allocated, and so is every item the list
  still leads to, once.  Violated if STOP left its item in the list.
- `MixerMatchesList`: between requests, and after unloading, list, heap, pipeline
  and mixer name the same sources; no request pad is left behind, which is what
  the NB comment at `play.c:102` is about.  Violated if the pad were looked up
  after the unlink.
- `PipelineDriven`: an answered PLAY has set its source going although the state
  it decided on (`play.c:82-87`) may be stale.  Violated if every source started
  on its own.  It does not say that the source is heard: the pipeline may have failed
  after its state was read, and stays as it is; and a pad announced before
  `pad-added` is connected is never linked (`play.c:77-79`).
- `PadAbortExplained`: the abort in `on_new_source_pad_link` has one of two
  causes, a source with more than an audio stream, or a source STOP has removed.
  It is a statement of what remains possible, not that it cannot happen.
- `IdSharedOnlyByReuse`: without hash collisions, two sources share an id only if
  the one got the other's address in the same second for the same URI.
- `HandlerEnds`: a handler comes to its end, with all its loops.

The properties of the main loop:

- `LockStep`: exactly while a request is handled the socket has it open; none is
  open when the drain is over, nor when the main loop ends.
- `DeafOnlyBriefly`: the only way to a deaf but bound socket is a signal, and that
  signal ends the daemon.
- `QuitExits`: asked to end by `QUIT` or a signal, the process ends, *unless* a
  callback never returns or the socket was leaked.  Both exceptions are needed:
  clients that keep the socket busy hold up the exit for ever
  (`gst_playd.c:160-162`), `TAGS` may wait for ever (`play.c:279`), and
  `zmq_ctx_destroy` waits for the socket that `create_server_socket` did not close.
- `Served`: a request at the socket is taken up, unless TAGS waits for ever, the
  server ends or a send was broken.
- `ReplyArrives`: a reply arrives, its client goes away, or its linger time ends; it
  is cut off only by an abort, or by a signal in the wait of `zmq_ctx_destroy`.  The
  reply to the `QUIT` itself is included.

The properties of the daemon as a whole:

- `DaemonInv`: the invariants of both parts, and what holds between them: a request in
  hand is the one its client made; the main thread is in the plugin only for such a
  request, or to unload it; what it does there is what was asked for, with its
  parameter; sources exist only where their threads do.
- `JukeboxSpec`: every step of the daemon is one of `Jukebox` or none that a client
  could tell.  Violated if STOP took the last source with its id instead of the first.

The properties of the parser:

- `HandedToOwner`: a message goes to the plugin that registered its command last,
  and gets the parameter that follows the command; any other message goes to none.
  The expression is ambiguous, and a lazy command (`[A-Z]+?`) would violate it.
- `NoDanglingContext`: no command leads to a plugin that refused or was freed, at
  no point of `parse_free` either.  Violated if the table went after the plugins.
- `UnloadedNewestFirst`: unloading goes in the reverse of the registration and
  leaves no plugin out.

The properties of TAGS and its reply:

- `LastListWins`: however tags are spread over messages, each entry is what the last
  message that had it said, and none is missing.  A later, shorter list of values
  leaves the rest of an earlier one in place.
- `AnsweredAtEnd`: the answer is made at the first message that is not of tags; an
  error is answered FAIL only if no tag came before it (`play.c:301`).
- `AbortNeedsRace`: `on_new_pad_tags` aborts the daemon only if two callbacks overlap
  (`play.c:245-246`).  Like `PadAbortExplained` it says what remains possible.
- `Answered`: once an ERROR or ASYNC_DONE is posted, the request is answered.
- `NothingPastEnd`, `StringIsTable`: the buffer holds exactly what is printed, and
  the string in it is all of the table.
- `ReadsBack`: the client gets each tag's values in the order of their indices, if and
  only if no value has a line end in it or a CR at its end, and GLib's walk of the table
  came to the values of each tag in that order, but for equal ones.  No escaping is done
  on either side, and GStreamer's comments and lyrics may have line ends: then tags are
  wrong, or the client raises an error.  And the client ignores the index: of two
  artists, say, `artist_1` is the first if the walk came to it first.

The properties of the programs on a host:

- `HeardRight`, a part of `IInv`: a listener prints events of its own port only, each
  once and in the order they were published, through the restart of its daemon and
  beside a neighbour.  It does not say *all*.
- `FeedSpec` does, as far as it is so: every step is one of `Feed`.  An event of the
  daemon a listener is subscribed to is missing only if its queue was full when that was
  published, or if a signal interrupted the send, and then for everyone; nobody is told,
  and the numbers tell.  What was sent is lost only with the
  connection, and then from the end.  With queues of one event TLC sees all of it.  Violated
  if a daemon answered PUBSUB with the address of the port behind its own.
- `DeafExplained`: a daemon that runs without its REP socket collided with one of two
  things.  Either the PUB socket of a daemon on the port option below has its port; or its
  predecessor was between closing PUB and closing REP (`gst_playd.c:334, 338`), and
  the new daemon stays deaf although it is alone a moment later.  A second daemon on a
  port in use ends at once; that is the PUB socket's doing, and
  is violated if its failure were ignored as the other's is.
- `NewsPublished`: every bus message reaches the callback, unless the daemon ends or
  is held up in TAGS.  Violated if the `default` case took the watch away.
- `EventsArrive`: an event that was sent arrives, or its linger time is over, its
  daemon aborted or got a signal in that time, or the listener ended.  Violated if linger
  were 0.
- `WaitExplained`: why a client may wait for ever in `zmq_msg_recv`: nobody serves its
  port, TAGS does not return, or the request was lost, with a daemon or in a
  neighbour's PUB socket; nothing is ever sent again.  `lost` is left out of what
  must end, so the losses themselves are not caught by it: it says that a request which
  reached a daemon and was not lost is answered.

The properties of base64:

- `EncodedBits`: the text is the source's bits, six by six, filled up and padded,
  compared with a definition that works on single bits.
- `BuffersHold`: the encoder does not write past its caller's buffer, and neither
  `in_buf` nor `out_buf` runs over.  `in_buf` is filled behind what the last round left
  in it; if that were not counted, it would run over.
- `Unbroken`: wherever blanks and the ends of the input buffer cut a stream, what is
  written is the stream decoded in one piece.  Violated if the character that found
  no room in the buffer were read all the same.
- `DecodedBits`: and that is the bits between one padding and the next, compared with a
  definition that cuts the stream into those pieces first (`Pieces`), and takes the
  octets of the 24-bit numbers that four characters each make (`Number`, `Octets`).
- `ReadsBack`: what was encoded is read back, also up to a line of four paddings, and
  what stands behind that line is not read.
- `EndsIfFed`: the reader ends, *unless* its buffer is once full of characters of which
  one to three are in the table and none is padding.  Then it neither reads nor
  decodes, also at the end of the file, although its comment says that it can stop
  there (`uuencode.c:171`).

**The bounds, and why they are enough.**  `MaxPlays` bounds the PLAYs of a
behaviour and `MaxClock` the seconds; STOPs are unbounded.  Three sources in two
addresses give: an address used again, a list of two with a removal at either
end, two sources with one id, one newer and one older, and a source started
while another plays.  The colliding hash is the adversary for the list search, the
distinct one for the ids.  `film` has a second pad, `song` has one.  Two clients
are what it takes for one request to wait while another is handled; a third adds
no new state of the socket.  In `loop` one of them may go away.  In `daemon` one client goes away, and only
while nothing has asked the daemon to end, and a TAGS comes before every PLAY or none
(`Bounded`): the run is there for the plugin's interleavings with the other client's
request, with signals and with the teardown; the rest `loop` has.  In five characters there is room for a command of
two letters and its own prefix, a space, a parameter, and what may stand before,
between and behind them; three plugins give one that takes over a command, one that
refuses, and a list to unload.  Three pads
give a race of two and one that comes too late; four messages give a list that is
overwritten in part and an end behind it.  Four entries are when a buffer short of
a character for each has used up the four bytes that `utility.c:102` begins with.
Two daemons are what a collision takes; the second has the port of the first or the
next one, and the client who asks has either too.  `MaxPosts` is two for one daemon
(one message that is published behind one that is not) and none for the other, whose
events are answers to `PING`.  `HWM` is 1, so that a queue is full at once.
`Signalled` has one of the two, and a deaf daemon gets signals too, as nothing else
ends it.  `MCInit` puts the one-shot client on the other port only with the second
daemon, and lets it ask for TAGS only there, so that a TAGS that never returns holds up
a neighbour and not the listener's own daemon as well; after a `QUIT` or a signal
GStreamer posts no more on that daemon's bus (`Bounded`).  `BufferSize` is 5 in
place of 64: it cuts a group of four after one character, a text of three groups at
two places, and a stream of six characters fills it.
`CHECK_DEADLOCK FALSE` is in every cfg because the
system may stop: the process exits or aborts.  No symmetry is used (there is
liveness, and the URIs differ).

**Fairness.**  `Playback` assumes `WF(Handler)`: a handler is straight-line C whose
calls return, so the main thread takes its next step.  Nothing is assumed of
GStreamer or of clients.  `MainLoop` assumes `WF(MainThread)` for the same reason,
with `TagsEnd` left out because nothing bounds that wait; `SF(DispatchSignal)`
because GLib dispatches every ready source of equal priority in an iteration, so
one that is ready whenever the loop polls is dispatched; `SF(Recv(c))` because
ZeroMQ takes from its peers in turn; `WF` of `Arrive` and `Deliver`, the I/O thread.
Clients may stop asking, and nothing makes them collect a reply.
`Events` assumes `WF(Main(d))` for the thread of a daemon, without TAGS; `SF(Dispatch(d))`
as GLib gives the bus its turn between two ticks; and `WF(Library(c))`: ZeroMQ goes on
connecting and moving what it has, and a listener prints.  That a user starts or ends
a program is never assumed.  `Base64` assumes that its one thread runs on.

## What is proved

`tlapm` checks all of the following for any constants that satisfy
`PlaybackAssumption`, `MainLoopAssumption`, `ParserAssumption`, `TagsAssumption`,
`TableAssumption`, `EventsAssumption`, `Base64Assumption` and `DaemonAssumption` (types
of the constants, that `NULL` is no address, client, daemon, plugin or pad, that a
plugin is registered once, that tables are finite, and that clients ask for URIs and
numbers that `Playback` knows);
nothing is assumed beyond those.

- `PlaybackProofs`: `Spec => []IInv`, and from it `TypeOK`, `NoDanglingItem`,
  `MixerMatchesList`, `PipelineDriven` and `PadAbortExplained`; and
  `Spec => PlayerSpec`.
- `DaemonProofs`: of the main loop `Spec => []IInv`, from it `TypeOK`, `LockStep` and
  `DeafOnlyBriefly`, and `Spec => RequestsSpec`; of the daemon
  `DaemonSpec => []DaemonInv`, that it is `MainLoop` and `Playback` in one
  (`DaemonSpec => LoopSpec`, `DaemonSpec => PluginSpec`), so that all that was proved of
  the two by themselves holds of it, and `DaemonSpec => JukeboxSpec`.
- `ParserProofs`: `SplitCorrect`, on texts of any length; `Spec => []IInv`, and from
  it `HandedToOwner`, `NoDanglingContext` and `UnloadedNewestFirst`.
- `TagsProofs`: `Spec => []IInv`, and from it `LastListWins`, `AnsweredAtEnd` and
  `AbortNeedsRace`.
- `TableTextProofs`: `NothingPastEnd`, `TypeOK`, `StringIsTable` and `ReadsBack`, for
  tables of any size with texts of any length.
- `EventsProofs`: `Spec => []IInv`, and from it `HeardRight` and `DeafExplained`, for any
  number of daemons and clients on any ports; and `Spec => FeedSpec`.
- `Base64Proofs`: `BuffersHold`, `EncodedBits`, `Unbroken`, `DecodedBits` and
  `ReadsBack`, for sources and streams of any length and any input buffer of at least
  four characters.

*Induction over data.*  The library's induction theorems take an operator as their
parameter, which the provers cannot be given.  `SequenceLemmas` states them with a
set in its place: a set of naturals that has 0 and each successor is all of them
(`Induction`, by the least number outside of it, `Least`); a set of sequences that
has the empty one and each `Append` has them all (`SeqInduction`).  What is to be
shown of every `n` is then the set of those `n` for which it holds.  A recursive
function is for the provers a `CHOOSE` of a function that satisfies its equation, so
that first such a function must be shown to exist (`Recursion`) and to be the only one
(`SameRecursion`); after that `Lines`, `Collected`, `Decoded`, `Pieces` and the
library's `FlattenSeq` can be reasoned about by their equations.

*The argument for Playback.*  None of the properties is inductive: between two
requests everything agrees, but the middle of a handler must be described too.
`IInv` does that, in named parts.  `HeapOK`: the heap names a source at the address
it was made at, the last made there.  `PlaceOK`: what `cur`, `iter` and `sink` hold
at each `pc`.  `ListOK`: the list leads to each allocated item but the one in hand,
once, and the cells before `iter` do not count.  `MixerOK`: the pipeline and the
mixer lag behind the heap by at most the source in hand, and by which of its
parts at each `pc`.  `DriveOK`: listed sources have been started; and once a
source is listed, or is about to be started on its own, the pipeline has left
NULL, which is why a stale decision at line 85 leaves no source unstarted: the
pipeline never goes back to a state in which its children would not be started.
`PadOK`: a linked decoder has shown a pad.  `OrderOK`: the list has the newest
source first, and the source STOP has in hand is the newest with its id.  The
first five parts (`CoreInv`) are proved together, one lemma per action; the others
each on top of them.  The refinement then has one lemma per action a client sees
(`PlayAnswered`, `StopAnswered`, `StopRefused`, `UnloadStep`) and shows that all
others are stutters.

*The argument for MainLoop.*  `LockStep` needs `HandlingOK` (a request in hand was
made by a client, and the socket owes nothing before its handler answers), and the
refinement needs `ReplyOK` (a reply's verb is one its command allows).

*The argument for Daemon.*  `DaemonProofs` has an instance of `PlaybackProofs`, whose
lemmas on each step of the plugin it cites; `SameActions` and `SameInvariant` say that
the plugin of that instance is the one in `Daemon`.  A step of the daemon is a step of
the loop or none (`DaemonLoop`) and a step of the plugin or none (`DaemonPlugin`).  For
the first one has to know that the verb is one the loop allows, that the plugin comes
back only with a request of its own in hand, and that a thread that aborts has been
left by a command before it; for the second, that the plugin is idle when it is called,
and with which parameter.  That is what the parts of `DaemonInv` say, and why they stand
or fall together: `CallsOK` (a client waits for what it asked), `PlaceOK` (where the main
thread may be in the plugin at each `pc`), `WorkOK` (the source in hand is that of the
request), `ThreadsOK` and `DataOK`.  Both invariants then carry over.  For `JukeboxSpec`
there are two halves: what a step of the plugin does to what is seen of the sources
(`PlaySeen`, `StopSeen`, `RefusalSeen`, `UnloadSeen`; all others nothing), from the
refinement of `Playback`, and what a step of the loop does to what a client sees
(`RequestSeen`, `HandleSeen`, `AnswerSeen`, `ReturnSeen`, `LossSeen`).  They meet in
`HandleSeen`: the step that makes the reply is the one that changes the sources, and
`WorkOK` says that they change for this client's request.

*The argument for Parser.*  `SplitCorrect` says that the first match of the
expression is the split that `WordEnd` and `ParamStart` describe.  That there is a
first character at which a run of capitals (or the C string) ends is the
least-number principle: the lemma `Least`, from the well-foundedness of the naturals;
`LongestHead` draws it out for sequences.  Then `PlainSplits` shows that the split
described is one of the ways to match, and `PlainFirst` that every other way is
tried after it.  The invariant has two parts: `ListOK`, the list leads to the live
contexts in the order they were made in; `TableOK`, the table has exactly the
commands of the plugins tried so far that did not refuse, each for the last of them.
`HandedToOwner` follows from `TableOK` at the call and `SplitCorrect`.

*The argument for Tags.*  `LastListWins` says of each entry in the table which message
it came from, which makes it inductive without any recursion over the messages.

*The argument for TableText.*  `SizeInv` says that there is a function `f` that adds up
the lengths of the entries (`Adds`), that the first pass has reached `4 + f[at]`, and
the second `f[at]` of `4 + f[n]`; as `f` grows, there is room for the next entry and
its NUL.  `TextInv` adds that the buffer begins with the entries printed so far and a
NUL behind them, which is `StringIsTable` at the end (`StringIsText`).  For `ReadsBack`,
`Lines` is shown to split at line ends only (`LinesJoin`), so that an entry without a
line end in its value gives two lines (`TwoLinesEach`); the key's line tells tag and
index, as behind the last underscore there are digits only (`TagOfKey`); and `Chomp`
gives the value back if it has no CR at its end.  What the client collects has each value
at its place in the walk (`CollectedValues`), so it is the table if places and indices
agree (`TableOf`); both number the entries of a tag without gaps (`PlacesOfTag`,
`Ranks`).  The other direction has two cases.  If some value has a line end, there are
more lines than twice the entries, or the reading ends in an error: in both the number of
values the client gets tells (`CountTells`).  If none has, a value with a CR at its end
has become shorter.  Another one from elsewhere in the walk could not have taken its
place: the values of that length or more would have to be found, one for one, among what
is left of them, and there is one less (`NothingTaken`).  `SizeInv` quantifies over
functions and is not a TLC invariant.

*The argument for Events.*  `HeardRight` is inductive once it is known whom a listener
can be joined to: `RouteOK`, a request and a listener are with daemons of their port,
since an answer names the port of the daemon it came from.  A queue changes in two
ways only: `Spread` adds an event numbered after all of its daemon (`PublishKeeps`),
and the end of a connection cuts it off (`CutShortens`, `ShortenedRight`).
`DeafExplained` needs `SocketOK`: which socket a daemon has at which `pc`, and that two
daemons have PUB sockets only on two ports; so whoever has the REP port and not the
PUB port is at `close` (`NextDeaf`).

For `FeedSpec` the queue of a listener is split at `printed`: `Heard` is what it has
printed and `Due` the rest.  Four lemmas about sequences say what becomes of the two parts
when the queue grows (`AddToRest`), when the cut moves (`HearOfRest`) and when the queue is
shortened (`CutOfRest`).  With them each action that touches a queue or a connection is a
step of `Feed` (`PublishFeeds`, `PublishWastes`, `CutLoses`, `ExitLoses`, `JoinFollows`,
`HearHears`, `LeaveLeaves`), and all others are none (`Unseen`).  `JoinFollows` needs
`RouteOK`, and
that no more than `HWM` events are lost needs that no more are ever due, which is a
part of `TypeOK`.

*The argument for Base64.*  Three invariants, each on top of the ones before.
`EncoderInv`: what is left is the length of the source less a multiple `3k` of three and
at least -2, and the first `k` groups of four have the bits of the first `k` of three; so
the next group goes to `4k + 1 .. 4k + 4`, and the zero behind the last to the end of the
buffer.  The rest is about `Outcome(t)`, what `decode_base64` makes of a text: its open
group, what it leaves over, and what it has written.  Lemmas follow it over one more
character (`OutcomeStep`) and show that it keeps less than a group (`OutcomeSound`), that
a text that is left over gives the same open group again and no bytes
(`OutcomeRestarts`), and that one text behind another may be decoded from where the
first has come to (`OutcomeFollows`).  `DecoderInv` then says: what is written is the
outcome of all that was read, and the input buffer has the open group of that outcome.
Neither buffer runs over because a text of `n` characters gives at most
`3 * (n \div 4) + 2` bytes.
`ReaderInv` says which file is read, and where a line of four paddings is met.
The text of `k` groups decodes to the first `3k` bytes (`TextIs`, by
`GroupOutcome`, which undoes the arithmetic of `GroupOfBytes`), and its last group
with its padding to the rest (`TextOutcome`).
For `DecodedBits` the reference is followed along the stream next to the decoder:
`Matches` says that the bytes written are the octets of all pieces but the last and of the
whole groups of the last, and that the open group is what those leave of it.  A
character that is skipped changes neither, one of the table may complete a group, and a
padding closes the piece (`NextMatches`); the octets of whole groups and of what follows
them are the octets of both (`OctetsOfConcat`).  `DecoderInv` carries that over to the
stream as it is read, cut into lines.

*Only model-checked:* `HandlerEnds`, `QuitExits`, `Served`, `ReplyArrives`, `Answered`,
`NewsPublished`, `EventsArrive`, `WaitExplained` and `EndsIfFed`, as liveness under
fairness is beyond the prover; and `IdSharedOnlyByReuse`, whose premise, a hash that never
collides, no hash of 32 bits fulfils: it says that what is hashed tells sources apart as
far as it can.  Every other invariant, action property and refinement that a passing run
checks is also proved.

## Where the program and its text disagree

- `play.c:98-99` (run `playback_ready`): the state set is PLAYING, the error text
  says READY.  A source is removed while it plays; a pad it announces afterwards
  aborts the daemon.
- `parser.c:104` (run `parser_bare`): the README shows a bare `STOP` (`README.md:49`)
  and `ping.c:55` provides for a missing parameter, but the expression demands one and
  takes the command's last letter for it.
- `play.c:89-91, 319` (run `playback_load`): `FAIL Can't load source` is never
  sent, because a failed load aborts in `g_error`.

Seen while modelling, without a run of their own: without a server nobody is told "Check
to see if the server is down" (`gst_playd.c:211-213`), since `zmq_connect` and
`zmq_msg_send` succeed in the background and `zmq_msg_recv` waits for ever
(`utility.c:73`, see `WaitExplained`); a daemon that finds its port in use
exits with status 0 (`gst_playd.c:298-299`, `ret` is not set); `read_base64` can spin at the
end of a file (`uuencode.c:171, 193`, see `EndsIfFed`), and knows a `====` line only if no
incomplete group is left in front of it; the Ruby class opens a SUB socket but
subscribes to nothing; and the README's "you can run as many as you want in parallel"
(`README.md:7-8`) holds only of daemons whose port options are neither the same nor
adjacent, as each takes the next port too (`pubsub.c:36`): one runs deaf, or does not run
(`DeafExplained`).

## What is not modelled, and the plan

Modelled are the life of a source, the life of a request, the two together, the parser
between them, the TAGS request with its reply, the events, and the programs on a host.
What is left, by weight:

- an abstract specification that `Tags` implements, which MainLoop's `TagsEnd` is an
  instance of: in `Daemon` a TAGS is still a step with any verb;
- that the daemons of `Events` do what `MainLoop` lets them do.

Left out for good: option parsing, which comes before any state; `DUMPGRAPH`, which
writes a debug file; log texts; the uuencode table of `uuencode.c`, which nothing uses;
the pipelines that TAGS requests leave behind, one each, whose number nothing in the
code bounds; the build system; and the Icecast and AirPlay outputs, for which this
commit has no code.  GStreamer and ZeroMQ are libraries: they appear only as what they
may do to this code.
