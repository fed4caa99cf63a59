------------------------------- MODULE Logger -------------------------------
(***************************************************************************)
(* memcached's log: each worker writes entries to a bip buffer of its own; *)
(* one logger thread turns them into lines in the bip buffers of the       *)
(* watchers that asked for them and writes those to the sockets as far as  *)
(* they take them.  A line that does not fit is counted, and the count is  *)
(* a line of its own before the next one that does.                        *)
(***************************************************************************)
EXTENDS BipBuffer, FiniteSets, Functions

CONSTANTS Writers,            \* worker threads, the last to have registered first
          Events,             \* kinds of event an entry can have (LOG_FETCHERS, ...)
          WATCHER_LIMIT,
          Clients,            \* connections that ask to watch
          logger_buf_size, logger_watcher_buf_size,
          ReqLen,             \* room an entry asks for; it may use less
          LineLen, SkipLen,   \* length of a line, and of a line that counts the skipped
          MaxEntries          \* bound: entries logged

ASSUME LoggerAssumption ==
  /\ Writers \in Seq(Range(Writers))
  /\ {WATCHER_LIMIT, logger_buf_size, logger_watcher_buf_size, ReqLen, MaxEntries} \subseteq Nat
  /\ {LineLen, SkipLen} \subseteq Nat \ {0}
  /\ "none" \notin Clients

VARIABLES buf,         \* worker -> its bip buffer
          eflags,      \* events the workers log
          watchers,    \* slot -> watcher, or NoWatcher
          pollfds,     \* the revents of watchers_pollfds, kept from poll to poll
          pc,          \* where the logger thread is
          waiting,     \* clients that have not asked yet
          gid,
          unread       \* worker -> the cells of what it logged and the logger
                       \* thread has not taken (for the properties)

lVars == <<buf, eflags, watchers, pollfds, pc, waiting, gid, unread>>

Slots == 0..(WATCHER_LIMIT - 1)
NoWatcher == [id |-> "none"]
Live == {x \in Slots : watchers[x] # NoWatcher}

(* What a buffer holds, cell by cell: which entry or line, and the cell of *)
(* it.                                                                     *)
EntryCells(g, event, n) == [i \in 1..n |-> [gid |-> g, event |-> event, cell |-> i, size |-> n]]
LineCells(line, n) == [i \in 1..n |-> [line |-> line, cell |-> i, size |-> n]]
OkLine == [kind |-> "ok", n |-> 0]
EntryLine(g) == [kind |-> "entry", n |-> g]
SkipLine(n) == [kind |-> "skipped", n |-> n]

Sleeping == [at |-> "sleep", l |-> 1, size |-> 0, pos |-> 0, x |-> 0, nfd |-> 0, flushed |-> 0, all |-> FALSE]

LInit ==
  /\ buf = [w \in Range(Writers) |-> bipbuf_new(logger_buf_size)]
  /\ eflags = {}
  /\ watchers = [x \in Slots |-> NoWatcher]
  /\ pollfds = [i \in Slots |-> {}]
  /\ pc = Sleeping
  /\ waiting = Clients
  /\ gid = 0
  /\ unread = [w \in Range(Writers) |-> <<>>]

-----------------------------------------------------------------------------
(* LOGGER_LOG and logger_log: an entry asks for the most its kind may need *)
(* and keeps what it used; without the room it is dropped.                 *)
logger_log(w, event, size) ==
  /\ gid < MaxEntries /\ event \in eflags
  /\ IF bipbuf_request(buf[w], ReqLen)
     THEN /\ gid' = gid + 1
          /\ buf' = [buf EXCEPT ![w] = bipbuf_offer(@, EntryCells(gid + 1, event, size))]
          /\ unread' = [unread EXCEPT ![w] = @ \o EntryCells(gid + 1, event, size)]
     ELSE UNCHANGED <<gid, buf, unread>>
  /\ UNCHANGED <<eflags, watchers, pollfds, pc, waiting>>

Wanted(ws) == UNION {ws[x].eflags : x \in {y \in Slots : ws[y] # NoWatcher}}

(* A client takes the first free slot and is greeted; the flags of the     *)
(* loggers follow.                                                         *)
logger_add_watcher(c, f) ==
  /\ pc.at = "sleep" /\ c \in waiting /\ Cardinality(Live) < WATCHER_LIMIT
  /\ LET x == CHOOSE x \in Slots \ Live : \A y \in Slots \ Live : x <= y
     IN  watchers' = [watchers EXCEPT ![x] =
           [id |-> c, eflags |-> f, skipped |-> 0, failed_flush |-> FALSE,
            buf |-> bipbuf_offer(bipbuf_new(logger_watcher_buf_size), LineCells(OkLine, 1)),
            sent |-> <<>>, due |-> <<>>]]
  /\ eflags' = Wanted(watchers')
  /\ waiting' = waiting \ {c}
  /\ UNCHANGED <<buf, pollfds, pc, gid, unread>>

-----------------------------------------------------------------------------
(* The logger thread wakes up, takes logger_stack_lock and visits the      *)
(* loggers.                                                                *)
Wake ==
  /\ pc.at = "sleep"
  /\ pc' = [Sleeping EXCEPT !.at = "read"]
  /\ UNCHANGED <<buf, eflags, watchers, pollfds, waiting, gid, unread>>

Cur == Writers[pc.l]

(* logger_thread_read: what the worker has written so far is looked at     *)
(* under its mutex and read without it.                                    *)
logger_thread_read ==
  /\ pc.at = "read" /\ pc.l <= Len(Writers)
  /\ pc' = IF bipbuf_is_empty(buf[Cur]) THEN [pc EXCEPT !.l = @ + 1]
           ELSE [pc EXCEPT !.at = "entry", !.size = Len(bipbuf_peek_all(buf[Cur])), !.pos = 0]
  /\ UNCHANGED <<buf, eflags, watchers, pollfds, waiting, gid, unread>>

Entry == buf[Cur].data[buf[Cur].a_start + pc.pos]

NextEntry ==
  /\ pc.at = "entry" /\ pc.pos < pc.size /\ Live # {}
  /\ pc' = [pc EXCEPT !.at = "write", !.x = 0]
  /\ unread' = [unread EXCEPT ![Cur] = SubSeq(@, Entry.size + 1, Len(@))]
  /\ watchers' = [x \in Slots |->
       IF x \in Live /\ Entry.event \in watchers[x].eflags
       THEN [watchers[x] EXCEPT !.due = Append(@, Entry.gid)] ELSE watchers[x]]
  /\ UNCHANGED <<buf, eflags, pollfds, waiting, gid>>

(* All that was looked at is given up at once, read or not.                *)
Advance ==
  /\ pc.at = "entry" /\ (pc.pos >= pc.size \/ Live = {})
  /\ buf' = [buf EXCEPT ![Cur] = bipbuf_poll(@, pc.size)]
  /\ unread' = [unread EXCEPT ![Cur] = SubSeq(@, pc.size - pc.pos + 1, Len(@))]
  /\ pc' = [pc EXCEPT !.at = "read", !.l = @ + 1]
  /\ UNCHANGED <<eflags, watchers, pollfds, waiting, gid>>

WriteTo(w, line, n) == [w EXCEPT !.buf = bipbuf_offer(@, LineCells(line, n))]

(* Mutant of WithLine: the count is written but not reset.                 *)
WithLine_Again(w, g) ==
  WriteTo(IF w.skipped > 0 THEN WriteTo(w, SkipLine(w.skipped), SkipLen) ELSE w,
          EntryLine(g), LineLen)

(* The line of the count comes first, then the entry.                      *)
WithLine(w, g) ==
  WriteTo(IF w.skipped > 0 THEN [WriteTo(w, SkipLine(w.skipped), SkipLen) EXCEPT !.skipped = 0] ELSE w,
          EntryLine(g), LineLen)

Skipping(w) == [w EXCEPT !.skipped = @ + 1]

NoRoom(w) == ~w.failed_flush /\ ~bipbuf_request(w.buf, LineLen + SkipLen)

(* logger_thread_write_entry, one watcher at a time.                       *)
logger_thread_write_entry ==
  /\ pc.at = "write" /\ pc.x < WATCHER_LIMIT
  /\ ~(pc.x \in Live /\ Entry.event \in watchers[pc.x].eflags /\ NoRoom(watchers[pc.x]))
  /\ watchers' = IF pc.x \in Live /\ Entry.event \in watchers[pc.x].eflags
                 THEN [watchers EXCEPT ![pc.x] =
                         IF @.failed_flush THEN Skipping(@) ELSE WithLine(@, Entry.gid)]
                 ELSE watchers
  /\ pc' = [pc EXCEPT !.x = @ + 1]
  /\ UNCHANGED <<buf, eflags, pollfds, waiting, gid, unread>>

EntryDone ==
  /\ pc.at = "write" /\ pc.x = WATCHER_LIMIT
  /\ pc' = [pc EXCEPT !.at = "entry", !.pos = @ + Entry.size]
  /\ UNCHANGED <<buf, eflags, watchers, pollfds, waiting, gid, unread>>

(* The k-th watcher of a set of slots.                                     *)
Nth(xs, x) == Cardinality({y \in xs : y < x})

(* logger_thread_poll_watchers(0, x), for a watcher without room: only its *)
(* socket is polled, and the answer stands first in the array.             *)
PollOne(ready) ==
  /\ pc.at = "write" /\ pc.x \in Live /\ Entry.event \in watchers[pc.x].eflags
  /\ NoRoom(watchers[pc.x])
  /\ watchers' = [watchers EXCEPT ![pc.x].failed_flush = FALSE]
  /\ pollfds' = [pollfds EXCEPT ![0] = ready]
  /\ pc' = [pc EXCEPT !.at = "flush", !.nfd = 0, !.flushed = 0, !.all = FALSE]
  /\ UNCHANGED <<buf, eflags, waiting, gid, unread>>

(* logger_thread_poll_watchers(1, WATCHER_ALL), after the last logger: a   *)
(* watcher with data is polled for writing, one without for reading.       *)
PollAll(ready) ==
  /\ pc.at = "read" /\ pc.l > Len(Writers)
  /\ watchers' = [x \in Slots |-> IF x \in Live THEN [watchers[x] EXCEPT !.failed_flush = FALSE]
                                  ELSE watchers[x]]
  /\ pollfds' = [i \in Slots |->
       IF \E x \in Live : Nth(Live, x) = i
       THEN LET x == CHOOSE x \in Live : Nth(Live, x) = i
            IN  ready[x] \cap {IF bipbuf_is_empty(watchers[x].buf) THEN "in" ELSE "out"}
       ELSE pollfds[i]]
  /\ pc' = IF Live = {} THEN Sleeping
           ELSE [pc EXCEPT !.at = "flush", !.nfd = 0, !.x = 0, !.flushed = 0, !.all = TRUE]
  /\ UNCHANGED <<buf, eflags, waiting, gid, unread>>

(* The second loop visits every watcher, whichever were polled.            *)
Visited == IF \E x \in Live : Nth(Live, x) = pc.nfd THEN {CHOOSE x \in Live : Nth(Live, x) = pc.nfd} ELSE {}

Sending(w, n) ==
  [w EXCEPT !.sent = @ \o SubSeq(bipbuf_peek_all(w.buf), 1, n), !.buf = bipbuf_poll(@, n)]

(* A socket takes n of the cells a watcher holds in region a; n = 0 is     *)
(* EAGAIN.                                                                 *)
Flush(x, n) ==
  /\ pc.at = "flush" /\ Visited = {x}
  /\ IF "out" \in pollfds[pc.nfd] /\ ~bipbuf_is_empty(watchers[x].buf)
     THEN n <= Len(bipbuf_peek_all(watchers[x].buf)) ELSE n = 0
  /\ watchers' = [watchers EXCEPT ![x] = Sending(@, n)]
  /\ pc' = [pc EXCEPT !.nfd = @ + 1, !.flushed = @ + n]
  /\ UNCHANGED <<buf, eflags, pollfds, waiting, gid, unread>>

(* The client has gone: its read returns nothing.  The slots after it are  *)
(* counted as before.                                                      *)
logger_thread_close_watcher(x) ==
  /\ pc.at = "flush" /\ Visited = {x} /\ pc.all /\ pollfds[pc.nfd] # {}
  /\ watchers' = [watchers EXCEPT ![x] = NoWatcher]
  /\ eflags' = Wanted(watchers')
  /\ pollfds' = [i \in Slots |-> IF i >= pc.nfd /\ i + 1 \in Slots THEN pollfds[i + 1] ELSE pollfds[i]]
  /\ UNCHANGED <<buf, pc, waiting, gid, unread>>

(* After a poll for one watcher that wrote nothing, its line is skipped.   *)
Flushed ==
  /\ pc.at = "flush" /\ Visited = {}
  /\ IF pc.all THEN pc' = Sleeping /\ UNCHANGED watchers
     ELSE /\ pc' = [pc EXCEPT !.at = "write"]
          /\ watchers' = IF pc.flushed = 0 THEN [watchers EXCEPT ![pc.x].failed_flush = TRUE] ELSE watchers
  /\ UNCHANGED <<buf, eflags, pollfds, waiting, gid, unread>>

LoggerStep ==
  \/ Wake \/ logger_thread_read \/ NextEntry \/ Advance \/ logger_thread_write_entry \/ EntryDone \/ Flushed
  \/ \E ready \in SUBSET {"out"} : PollOne(ready)
  \/ \E ready \in [Live -> SUBSET {"in", "out"}] : PollAll(ready)
  \/ \E x \in Slots : logger_thread_close_watcher(x) \/ \E n \in 0..logger_watcher_buf_size : Flush(x, n)

LNext ==
  \/ \E w \in Range(Writers), e \in Events, n \in 1..ReqLen : logger_log(w, e, n)
  \/ \E c \in Clients, f \in (SUBSET Events) \ {{}} : logger_add_watcher(c, f)
  \/ LoggerStep

LSpec == LInit /\ [][LNext]_lVars

-----------------------------------------------------------------------------
(* A run of cells is made of whole entries, or of whole lines.             *)
Whole(s) ==
  /\ s # <<>> => s[1].cell = 1
  /\ \A i \in 1..Len(s) : s[i].cell = 1 =>
       /\ \A k \in 1..s[i].size : i + k - 1 <= Len(s) /\ s[i + k - 1] = [s[i] EXCEPT !.cell = k]
       /\ i + s[i].size <= Len(s) => s[i + s[i].size].cell = 1

(* What the lines of a stream of cells stand for: the numbers of their     *)
(* entries, and a 0 for each entry that a line counts.                     *)
Stands(c) ==
  IF c.cell # 1 \/ c.line.kind = "ok" THEN <<>>
  ELSE IF c.line.kind = "entry" THEN <<c.line.n>> ELSE [i \in 1..c.line.n |-> 0]

Spread(s) ==
  LET spread[n \in 0..Len(s)] == IF n = 0 THEN <<>> ELSE spread[n - 1] \o Stands(s[n])
  IN  spread[Len(s)]

Stream(w) == w.sent \o InOrder(w.buf)

(* The logger thread has not yet dealt with the last entry for watcher x.  *)
Unsettled(x) ==
  /\ pc.at \in {"write", "flush"} /\ ~pc.all /\ x >= pc.x
  /\ Entry.event \in watchers[x].eflags

(* What a watcher was sent and what waits for it are whole lines that      *)
(* account for every entry it asked for, in the order they were read: an   *)
(* entry is there, or it is one of those a line before the next entry      *)
(* counts (logger.c:276-319, 395-489; bipbuffer.c).                        *)
WatcherSeesAll ==
  \A x \in Live :
    LET w == watchers[x]
        seen == Spread(Stream(w))
    IN  /\ Whole(Stream(w))
        /\ Len(seen) + w.skipped = Len(w.due) - (IF Unsettled(x) THEN 1 ELSE 0)
        /\ \A i \in 1..Len(seen) : seen[i] \in {0, w.due[i]}

(* How far the logger thread has read the buffer it is at.                 *)
Reading == pc.at \in {"entry", "write", "flush"} /\ ~pc.all
Done == IF pc.at = "entry" THEN pc.pos ELSE pc.pos + Entry.size

(* Nothing a worker wrote is lost, repeated or reordered in its buffer     *)
(* while the logger thread reads it without the worker's mutex, and the    *)
(* thread reads an entry only where one begins: "assert(pos <= size)"      *)
(* (logger.c:339-382, 684-774).                                            *)
EntriesInOrder ==
  \A w \in Range(Writers) :
    LET cells == InOrder(buf[w])
    IN  IF Reading /\ Cur = w
        THEN /\ pc.pos <= pc.size /\ (pc.pos < pc.size => Entry.cell = 1)
             /\ SubSeq(cells, Done + 1, Len(cells)) = unread[w]
        ELSE cells = unread[w]
=============================================================================
