-------------------------------- MODULE Disk --------------------------------
(***************************************************************************)
(* fs/buf.c and drivers/ide.c: the queue of buffers that wait for the      *)
(* drive, and the driver.  Processes call buf_read() and buf_write() in    *)
(* the kernel with interrupts on, so they are preempted between any two    *)
(* accesses of the queue, and the interrupt of the drive comes on top of   *)
(* them.  Code that runs with IF clear is one step.  A buffer is a number, *)
(* 0 is NULL; flags are sets of bits; data is what is known of each sector *)
(* of a buffer.  Nobody sets the links of a new buffer: they hold what     *)
(* kmalloc() finds in its memory.  When it finds none buf_read() changes   *)
(* nothing of this.  The lock of a buffer is taken and released inside one *)
(* step of ide_handler().                                                  *)
(***************************************************************************)
EXTENDS Integers

CONSTANTS NPROC,            \* processes that use the disk
          NBUF,             \* buffers made (a bound)
          SECTORS,          \* BLOCK_SIZE/SECTOR_SIZE
          UNSET             \* what a link holds that nobody has set

Procs == 1..NPROC
Bufs == 1..NBUF
NULL == 0

ASSUME DiskAssumption ==
  /\ NPROC \in Nat \ {0} /\ NBUF \in Nat \ {0} /\ SECTORS \in Nat \ {0}
  /\ UNSET \in Bufs \cup {NULL}

VARIABLES
  queue, count,             \* bufs
  prev, next, flags, data,  \* the fields of each struct buf
  made,                     \* buffers allocated so far
  locked,                   \* idelock->locked
  ncli, fl_if,              \* of the CPU
  cur,                      \* the process that has it
  at, buf, header,          \* of each process: its place, and its locals
  drive,
  irr,                      \* IRQ14 is pending
  fault,                    \* "none", or why the kernel has stopped
  owed                      \* history: requests of a buffer less its answers

links == <<prev, next>>
bufs == <<queue, count>>
cpu == <<ncli, fl_if, cur>>
locals == <<at, buf, header>>
vars == <<bufs, links, flags, data, made, locked, cpu, locals, drive, irr,
          fault, owed>>

Places == {"user", "look", "first", "head", "walk", "hop", "next", "prev",
           "count", "acquire", "wait"}

\* Contents of a sector of a buffer: what the caller has, what the data port gives
\* when no sector is there, or sector s of the block buffer b was made for.
Contents == {<<"own">>, <<"junk">>} \cup
            {<<"read", b, s>> : b \in Bufs, s \in 1..SECTORS}

-----------------------------------------------------------------------------
(* The drive                                                               *)

NoCommand == [cmd |-> "none", for |-> NULL, left |-> 0, ready |-> FALSE,
              failed |-> FALSE, fault |-> FALSE, taken |-> TRUE]

Busy == drive.left > 0 /\ ~drive.ready

\* The next sector is read from the medium, or written to it; each is announced.
Sector ==
  /\ Busy
  /\ drive' = IF drive.cmd = "read" THEN [drive EXCEPT !.ready = TRUE]
              ELSE [drive EXCEPT !.left = @ - 1]
  /\ irr' = TRUE
  /\ UNCHANGED <<bufs, links, flags, data, made, locked, cpu, locals, fault,
                 owed>>

\* The command ends with ERR, or with DF; no further sector is announced.
SectorFails ==
  /\ Busy
  /\ \E f \in BOOLEAN :
       drive' = [drive EXCEPT !.left = 0, !.failed = TRUE, !.fault = f]
  /\ irr' = TRUE
  /\ UNCHANGED <<bufs, links, flags, data, made, locked, cpu, locals, fault,
                 owed>>

-----------------------------------------------------------------------------
(* buf_read() and buf_write()                                              *)

Running == fault = "none"

At(w) == Running /\ at[cur] = w

Goto(w) == at' = [at EXCEPT ![cur] = w]

mine == buf[cur]

Enter(b) ==
  /\ Goto("look")
  /\ buf' = [buf EXCEPT ![cur] = b]
  /\ owed' = [owed EXCEPT ![b] = @ + 1]
  /\ UNCHANGED <<bufs, links, data, locked, cpu, header, drive, irr, fault>>

\* A buffer of its own for each read.
BufRead ==
  /\ At("user") /\ made < NBUF
  /\ made' = made + 1
  /\ flags' = [flags EXCEPT ![made + 1] = {"B_VALID"}]
  /\ Enter(made + 1)

\* A buffer the caller has made and filled, or one whose read is finished.
BufWrite ==
  /\ At("user")
  /\ \/ /\ made < NBUF
        /\ made' = made + 1
        /\ flags' = [flags EXCEPT ![made + 1] = {"B_DIRTY"}]
        /\ Enter(made + 1)
     \/ \E b \in 1..made :
          /\ owed[b] = 0 /\ "B_VALID" \notin flags[b]
          /\ Enter(b)
          /\ UNCHANGED <<made, flags>>

\* Mutant: the queue is taken to be empty.
LookBlind ==
  /\ At("look")
  /\ Goto("first")
  /\ UNCHANGED <<bufs, links, flags, data, made, locked, cpu, buf, header, drive,
                 irr, fault, owed>>

Look ==
  /\ At("look")
  /\ Goto(IF queue = NULL THEN "first" ELSE "head")
  /\ UNCHANGED <<bufs, links, flags, data, made, locked, cpu, buf, header, drive,
                 irr, fault, owed>>

SetQueue ==
  /\ At("first")
  /\ queue' = mine
  /\ Goto("count")
  /\ UNCHANGED <<count, links, flags, data, made, locked, cpu, buf, header,
                 drive, irr, fault, owed>>

\* What was tested is read again, here and in Hop.
Head ==
  /\ At("head")
  /\ header' = [header EXCEPT ![cur] = queue]
  /\ Goto("walk")
  /\ UNCHANGED <<bufs, links, flags, data, made, locked, cpu, buf, drive, irr,
                 fault, owed>>

Walk ==
  /\ At("walk") /\ header[cur] # NULL
  /\ Goto(IF next[header[cur]] = NULL THEN "next" ELSE "hop")
  /\ UNCHANGED <<bufs, links, flags, data, made, locked, cpu, buf, header, drive,
                 irr, fault, owed>>

Hop ==
  /\ At("hop")
  /\ header' = [header EXCEPT ![cur] = next[@]]
  /\ Goto("walk")
  /\ UNCHANGED <<bufs, links, flags, data, made, locked, cpu, buf, drive, irr,
                 fault, owed>>

\* Without a header buf_read() goes on from a link at a small address.
WalkNull ==
  /\ At("walk") /\ header[cur] = NULL
  /\ fault' = "no header"
  /\ UNCHANGED <<bufs, links, flags, data, made, locked, cpu, locals, drive, irr,
                 owed>>

LinkNext ==
  /\ At("next")
  /\ next' = [next EXCEPT ![header[cur]] = mine]
  /\ Goto("prev")
  /\ UNCHANGED <<bufs, prev, flags, data, made, locked, cpu, buf, header, drive,
                 irr, fault, owed>>

LinkPrev ==
  /\ At("prev")
  /\ prev' = [prev EXCEPT ![mine] = header[cur]]
  /\ Goto("count")
  /\ UNCHANGED <<bufs, next, flags, data, made, locked, cpu, buf, header, drive,
                 irr, fault, owed>>

Count ==
  /\ At("count")
  /\ count' = count + 1
  /\ Goto("acquire")
  /\ UNCHANGED <<queue, links, flags, data, made, locked, cpu, buf, header,
                 drive, irr, fault, owed>>

-----------------------------------------------------------------------------
(* ide_execute()                                                           *)

\* Mutant: the interrupt flag is left as it is.
AcquireOpen ==
  /\ At("acquire")
  /\ fl_if' = fl_if /\ ncli' = ncli + 1
  /\ fault' = IF locked THEN "acquire" ELSE "none"
  /\ locked' = TRUE
  /\ Goto("wait")
  /\ UNCHANGED <<bufs, links, flags, data, made, cur, buf, header, drive, irr,
                 owed>>

Acquire ==
  /\ At("acquire")
  /\ fl_if' = FALSE /\ ncli' = ncli + 1
  /\ fault' = IF locked THEN "acquire" ELSE "none"
  /\ locked' = TRUE
  /\ Goto("wait")
  /\ UNCHANGED <<bufs, links, flags, data, made, cur, buf, header, drive, irr,
                 owed>>

\* The head of the queue is asked for.  outsl() hands a write's data over in one
\* go, and the drive has taken n sectors of it when it ends.
Asked ==
  IF "B_DIRTY" \in flags[queue]
  THEN {[NoCommand EXCEPT !.cmd = "write", !.for = queue, !.left = n,
                          !.taken = FALSE] : n \in 1..SECTORS}
  ELSE {[NoCommand EXCEPT !.cmd = "read", !.for = queue, !.left = SECTORS,
                          !.taken = FALSE]}

\* Mutant: the caller goes on with interrupts off.
MaskedIF == ncli = 0

\* Its eflags have IF set when the caller is back in user mode.
UserIF == TRUE

\* ide_wait(), the command, and the way back to user mode; idelock stays taken.
Command ==
  /\ At("wait") /\ ~Busy
  /\ IF queue = NULL THEN drive' = drive ELSE drive' \in Asked
  /\ fl_if' = UserIF
  /\ Goto("user")
  /\ UNCHANGED <<bufs, links, flags, data, made, locked, ncli, cur, buf, header,
                 irr, fault, owed>>

-----------------------------------------------------------------------------
(* ide_handler()                                                           *)

\* insl() reads a whole buffer: the sector that is ready, n - 1 more if the drive is
\* quick enough, and junk from a port that has nothing to give.
Insl(b, n) ==
  LET first == SECTORS - drive.left
  IN  data' = [data EXCEPT ![b] =
                 [i \in 1..SECTORS |->
                    IF drive.ready /\ i <= n THEN <<"read", drive.for, first + i>>
                    ELSE <<"junk">>]]

\* Quicker sectors were announced as well, and their interrupt is still pending.
Taken(n) ==
  IF drive.ready
  THEN /\ drive' = [drive EXCEPT !.left = @ - n, !.ready = FALSE, !.taken = TRUE]
       /\ irr' = (n > 1)
  ELSE drive' = [drive EXCEPT !.taken = TRUE] /\ irr' = FALSE

\* Mutant: the other flag is tested.
FetchesDirty(b) == "B_DIRTY" \in flags[b] /\ ~drive.fault

\* The flags of a buffer to be read say so; ide_wait() tells only DF from success.
Fetches(b) == "B_VALID" \in flags[b] /\ ~drive.fault

Fetch(b) ==
  IF Fetches(b)
  THEN \E n \in 1..SECTORS :
         /\ drive.ready => n <= drive.left
         /\ Insl(b, n) /\ Taken(n)
         /\ flags' = [flags EXCEPT ![b] = {"B_DIRTY"}]
  ELSE /\ drive' = [drive EXCEPT !.taken = TRUE]
       /\ irr' = FALSE
       /\ UNCHANGED <<data, flags>>

\* Mutant: the first of several stays at the head.
BufRemoveKeeps(b) ==
  /\ queue' = IF prev[b] = NULL /\ next[b] = NULL THEN NULL ELSE queue
  /\ count' = count - 1
  /\ UNCHANGED links

\* buf_remove() of the head, which buf_get() gave: the links decide which it is.
BufRemove(b) ==
  /\ queue' = IF prev[b] = NULL THEN next[b] ELSE queue
  /\ next' = IF prev[b] = NULL THEN next ELSE [next EXCEPT ![prev[b]] = next[b]]
  /\ prev' = IF prev[b] = NULL \/ next[b] = NULL THEN prev
             ELSE [prev EXCEPT ![next[b]] = prev[b]]
  /\ count' = count - 1

IdeHandler ==
  /\ Running /\ fl_if /\ irr /\ queue # NULL
  /\ "B_VALID" \in flags[queue] => ~Busy
  /\ Fetch(queue)
  /\ BufRemove(queue)
  /\ owed' = [owed EXCEPT ![queue] = @ - 1]
  /\ UNCHANGED <<made, locked, cpu, locals, fault>>

\* With no buffer in the queue the handler goes on from a lock at a small address.
IdeHandlerNoBuf ==
  /\ Running /\ fl_if /\ irr /\ queue = NULL
  /\ fault' = "no buffer" /\ irr' = FALSE
  /\ UNCHANGED <<bufs, links, flags, data, made, locked, cpu, locals, drive, owed>>

-----------------------------------------------------------------------------
\* A tick: yield_cpu() gives the CPU to another process, or finds ncli above 1.
Tick ==
  /\ Running /\ fl_if
  /\ \/ ncli = 0 /\ fault' = fault /\ cur' \in Procs \ {cur}
     \/ ncli > 0 /\ fault' = "goto_scheduler" /\ cur' = cur
  /\ UNCHANGED <<bufs, links, flags, data, made, locked, ncli, fl_if, locals,
                 drive, irr, owed>>

BufInit == queue = NULL /\ count = 0
IdeInit == locked = FALSE

Init ==
  /\ BufInit /\ IdeInit
  /\ prev = [b \in Bufs |-> UNSET] /\ next = [b \in Bufs |-> UNSET]
  /\ flags = [b \in Bufs |-> {}]
  /\ data = [b \in Bufs |-> [i \in 1..SECTORS |-> <<"own">>]]
  /\ made = 0
  /\ ncli = 0 /\ fl_if = TRUE /\ cur = 1
  /\ at = [p \in Procs |-> "user"]
  /\ buf = [p \in Procs |-> NULL] /\ header = [p \in Procs |-> NULL]
  /\ drive = NoCommand /\ irr = FALSE
  /\ fault = "none"
  /\ owed = [b \in Bufs |-> 0]

Call == BufRead \/ BufWrite

Step == Look \/ SetQueue \/ Head \/ Walk \/ Hop \/ WalkNull \/ LinkNext
          \/ LinkPrev \/ Count \/ Acquire \/ Command

Drive == Sector \/ SectorFails

Handle == IdeHandler \/ IdeHandlerNoBuf

Next == Call \/ Step \/ Drive \/ Handle \/ Tick

\* The CPU goes on, the drive answers, and a pending interrupt is taken while it can
\* be; callers and ticks come when they like.
Spec ==
  /\ Init /\ [][Next]_vars
  /\ WF_vars(Step) /\ WF_vars(Drive) /\ WF_vars(Handle)

-----------------------------------------------------------------------------
TypeOK ==
  /\ queue \in Bufs \cup {NULL} /\ count \in Int
  /\ prev \in [Bufs -> Bufs \cup {NULL}] /\ next \in [Bufs -> Bufs \cup {NULL}]
  /\ flags \in [Bufs -> SUBSET {"B_VALID", "B_DIRTY"}]
  /\ data \in [Bufs -> [1..SECTORS -> Contents]]
  /\ made \in 0..NBUF
  /\ locked \in BOOLEAN /\ ncli \in Nat /\ fl_if \in BOOLEAN /\ cur \in Procs
  /\ at \in [Procs -> Places]
  /\ buf \in [Procs -> Bufs \cup {NULL}] /\ header \in [Procs -> Bufs \cup {NULL}]
  /\ drive \in [cmd : {"none", "read", "write"}, for : Bufs \cup {NULL},
                left : 0..SECTORS, ready : BOOLEAN, failed : BOOLEAN,
                fault : BOOLEAN, taken : BOOLEAN]
  /\ irr \in BOOLEAN
  /\ fault \in {"none", "acquire", "goto_scheduler", "no buffer", "no header"}
  /\ owed \in [Bufs -> Int]

\* One request gets to the drive before the kernel stops, however the first calls of
\* buf_read() and buf_write() preempt each other: what idelock left taken, ncli above
\* 0, an empty queue and a link gone from under a walk can do comes only after it.
FirstGetsThrough == fault # "none" => drive.cmd # "none"

\* The first answer of the drive finds the buffer it is for at the head of the queue,
\* where ide_handler() takes it from: nobody gets in front in between.
HeadAsked == ~drive.taken => queue = drive.for

\* A read that does not fail brings the buffer asked for the first sector of its own
\* block, wherever in the queue it has got to, and nothing overwrites it later.
AnswerIsOwn ==
  drive.cmd = "read" /\ drive.taken /\ ~drive.failed
    => data[drive.for][1] = <<"read", drive.for, 1>>

\* No buffer is taken as answered more often than it was queued, though the drive
\* interrupts for each sector of a block.
AnsweredOnce == \A b \in Bufs : owed[b] >= 0

\* A request the drive was given is answered, unless the kernel stops first: that
\* ide_execute() leaves interrupts off and a lock taken does not keep IRQ14 away.
Answered == ~drive.taken ~> drive.taken \/ fault # "none"

-----------------------------------------------------------------------------
\* ide.c:126 says that ide_execute() carries out one task of the drive: it does not
\* stop the kernel instead.
TaskCarriedOut == fault # "acquire"

\* buf.c:100 empties the queue when its only element is removed.
Emptied == count = 0 => queue = NULL \/ \E p \in Procs : at[p] = "count"

\* buf.c:119: buf_get() gives the handler a buffer.
HandlerHasBuf == fault # "no buffer"

\* buf.c:48 follows a link it has found set.
HeaderStays == fault # "no header"

\* A buffer that ide_handler() has marked as read holds the sectors of its block.
ReadIsOwn ==
  \A b \in Bufs : \A i \in 1..SECTORS :
    data[b][i][1] # "junk" /\ (data[b][i][1] = "read" => data[b][i][2] = b)
=============================================================================
