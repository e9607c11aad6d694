----------------------------- MODULE DiskProofs -----------------------------
(***************************************************************************)
(* The safety of the disk for every number of processes, buffers and       *)
(* sectors: who is at the head of the queue when the drive answers, and    *)
(* what the answer leaves in the buffers.                                  *)
(***************************************************************************)
EXTENDS Disk, TLAPS

-----------------------------------------------------------------------------
\* A buffer waits or has been answered: which of the two, its flags say.
BufInv ==
  \A b \in Bufs :
    /\ b > made => flags[b] = {}
    /\ b <= made => flags[b] \in {{"B_VALID"}, {"B_DIRTY"}}

\* Processes whose buffer is in no link yet, and those that hold a place of the queue.
Unlinked(p) == at[p] \in {"look", "first", "head", "walk", "hop", "next"}
Walking(p) == at[p] \in {"walk", "hop", "next", "prev"}

\* A process in buf_read() or buf_write() has its buffer, and an element of the queue
\* once it has looked at it.
CallInv ==
  \A p \in Procs : /\ at[p] # "user" => buf[p] # NULL
                   /\ at[p] \in {"hop", "next", "prev"} => header[p] # NULL

\* idelock is taken once and for all, and by one process: until then no command has
\* been given, and afterwards ncli keeps every tick from changing the process.  What
\* stops the kernel comes after the command.
LockInv ==
  /\ ~locked => /\ ncli = 0 /\ fl_if /\ drive = NoCommand
                /\ fault = "none"
                /\ \A p \in Procs : at[p] # "wait"
  /\ locked => ncli > 0
  /\ locked /\ fault = "none" =>
       \/ /\ at[cur] = "wait" /\ ~fl_if /\ drive = NoCommand
          /\ \A p \in Procs \ {cur} : at[p] # "wait"
       \/ fl_if /\ drive.cmd # "none" /\ \A p \in Procs : at[p] # "wait"
  /\ fault # "none" => drive.cmd # "none"

\* What the registers of the drive say together.
DriveInv ==
  /\ drive.cmd = "none" => drive = NoCommand /\ ~irr
  /\ drive.cmd # "none" => drive.for \in 1..made
  /\ drive.ready => drive.cmd = "read" /\ ~drive.failed /\ drive.left > 0
  /\ drive.failed => drive.left = 0
  /\ drive.fault => drive.failed
  /\ ~drive.taken => drive.cmd # "none"
  /\ ~drive.taken /\ drive.cmd = "read" /\ ~drive.failed => drive.left = SECTORS
  /\ ~drive.taken /\ irr => drive.ready \/ drive.left < SECTORS
  /\ drive.cmd # "none" /\ drive.taken => drive.left < SECTORS

\* Until the first answer every buffer is queued once.
Unanswered == drive.cmd = "none" \/ ~drive.taken

\* The links that preempted calls leave: some buffers get lost, but
\* the head has no predecessor,
HeadFirst == queue <= made /\ (queue # NULL => prev[queue] = NULL)

\* only buffers there are have been linked, and none follows itself,
MadeLinked ==
  \A b \in Bufs : /\ owed[b] = (IF b <= made THEN 1 ELSE 0)
                  /\ next[b] <= made /\ next[b] # b
                  /\ b > made => prev[b] = NULL

MadeHeld ==
  \A p \in Procs : /\ at[p] # "user" => buf[p] <= made
                   /\ Walking(p) => header[p] <= made

\* nothing leads to a buffer before its process has linked it, nor is one put at the
\* head and behind another,
NotYetLinked ==
  \A p \in Procs :
    /\ Unlinked(p) => /\ queue # buf[p] /\ prev[buf[p]] = NULL
                      /\ \A b \in Bufs : next[b] # buf[p]
                      /\ \A q \in Procs : Walking(q) => header[q] # buf[p]
    /\ at[p] = "prev" => queue # buf[p]

\* no two processes queue the same one,
OwnBuffer ==
  \A p, q \in Procs : p # q /\ at[p] # "user" /\ at[q] # "user" => buf[p] # buf[q]

\* and what a walk has found set it finds again, since nothing is taken away.
QueueThere ==
  \A p \in Procs :
    /\ at[p] \notin {"user", "look", "first"} => queue # NULL
    /\ at[p] = "walk" => header[p] # NULL
    /\ at[p] = "hop" => next[header[p]] # NULL

LinksInv ==
  HeadFirst /\ MadeLinked /\ MadeHeld /\ NotYetLinked /\ OwnBuffer /\ QueueThere

\* What was asked for stays at the head: the one process that runs finds the queue
\* not empty.
HeadInv ==
  ~drive.taken =>
    /\ queue = drive.for
    /\ fault = "none" => at[cur] # "first"
    /\ drive.cmd = "read" => flags[drive.for] = {"B_VALID"}

\* An answered read is marked, so that no later interrupt reads into its buffer.
AnswerInv ==
  drive.cmd = "read" /\ drive.taken /\ ~drive.failed
    => /\ flags[drive.for] = {"B_DIRTY"}
       /\ data[drive.for][1] = <<"read", drive.for, 1>>

DiskInv ==
  /\ TypeOK /\ BufInv /\ CallInv /\ LockInv /\ DriveInv
  /\ (Unanswered => LinksInv)
  /\ HeadInv /\ AnswerInv

\* A drive that reads two sectors at most interrupts at most once more after its
\* first answer; until it has, the head is a buffer that is owed one.
OwedInv ==
  /\ \A b \in Bufs : owed[b] >= 0
  /\ ~Unanswered => ~(irr /\ Busy)
  /\ ~Unanswered /\ (irr \/ Busy) /\ fault = "none" =>
       /\ queue # NULL => owed[queue] > 0
       /\ at[cur] \in {"look", "first"} => owed[mine] > 0

-----------------------------------------------------------------------------
\* The memory kmalloc() gives to new buffers has not been used since power-on, and is
\* zero then.
LinksUnset == UNSET = NULL

LEMMA Sizes == /\ NPROC \in Nat \ {0} /\ NBUF \in Nat \ {0} /\ SECTORS \in Nat \ {0}
               /\ NULL = 0 /\ NULL \notin Bufs
BY DiskAssumption DEF NULL, Bufs

DriveTypes == [cmd : {"none", "read", "write"}, for : Bufs \cup {NULL},
               left : 0..SECTORS, ready : BOOLEAN, failed : BOOLEAN,
               fault : BOOLEAN, taken : BOOLEAN]

LEMMA NoCommandType == NoCommand \in DriveTypes
BY Sizes DEF NoCommand, DriveTypes

LEMMA InitSound ==
  ASSUME LinksUnset, Init
  PROVE  DiskInv /\ OwedInv
<1>1. TypeOK
  <2>1. data \in [Bufs -> [1..SECTORS -> Contents]]
    BY DEF Init, Contents
  <2>2. drive \in DriveTypes
    BY NoCommandType DEF Init
  <2>3. cur \in Procs
    BY Sizes DEF Init, Procs
  <2>4. at \in [Procs -> Places] /\ buf \in [Procs -> Bufs \cup {NULL}]
        /\ header \in [Procs -> Bufs \cup {NULL}]
    BY DEF Init, Places
  <2>5. prev \in [Bufs -> Bufs \cup {NULL}] /\ next \in [Bufs -> Bufs \cup {NULL}]
        /\ flags \in [Bufs -> SUBSET {"B_VALID", "B_DIRTY"}]
        /\ owed \in [Bufs -> Int]
    BY DEF Init, LinksUnset
  <2>6. queue \in Bufs \cup {NULL} /\ count \in Int /\ made \in 0..NBUF /\ ncli \in Nat
    BY Sizes DEF Init, BufInit
  <2>7. /\ locked \in BOOLEAN /\ fl_if \in BOOLEAN /\ irr \in BOOLEAN
        /\ fault \in {"none", "acquire", "goto_scheduler", "no buffer", "no header"}
    BY DEF Init, IdeInit
  <2> QED BY <2>1, <2>2, <2>3, <2>4, <2>5, <2>6, <2>7 DEF TypeOK, DriveTypes
<1>2. BufInv /\ CallInv
  BY Sizes DEF Init, BufInv, Bufs, CallInv, Walking
<1>3. LockInv
  BY DEF Init, IdeInit, LockInv, NoCommand
<1>4. DriveInv /\ Unanswered
  BY DEF Init, DriveInv, NoCommand, Unanswered
<1>5. LinksInv
  BY Sizes DEF Init, LinksUnset, BufInit, LinksInv, HeadFirst, MadeLinked, MadeHeld,
               NotYetLinked, OwnBuffer, QueueThere, Unlinked, Walking, Bufs
<1>6. HeadInv /\ AnswerInv
  BY DEF Init, HeadInv, AnswerInv, NoCommand
<1>7. OwedInv
  BY <1>4 DEF Init, OwedInv
<1> QED BY <1>1, <1>2, <1>3, <1>4, <1>5, <1>6, <1>7 DEF DiskInv

-----------------------------------------------------------------------------
(* Types.                                                                  *)

PlaceTypes ==
  /\ at \in [Procs -> Places] /\ cur \in Procs
  /\ buf \in [Procs -> Bufs \cup {NULL}] /\ header \in [Procs -> Bufs \cup {NULL}]

LinkTypes ==
  /\ queue \in Bufs \cup {NULL}
  /\ prev \in [Bufs -> Bufs \cup {NULL}] /\ next \in [Bufs -> Bufs \cup {NULL}]

DataTypes ==
  /\ flags \in [Bufs -> SUBSET {"B_VALID", "B_DIRTY"}]
  /\ data \in [Bufs -> [1..SECTORS -> Contents]]

CountTypes ==
  /\ count \in Int /\ made \in 0..NBUF /\ ncli \in Nat /\ owed \in [Bufs -> Int]

FlagTypes ==
  /\ locked \in BOOLEAN /\ fl_if \in BOOLEAN /\ irr \in BOOLEAN
  /\ fault \in {"none", "acquire", "goto_scheduler", "no buffer", "no header"}

LEMMA Types ==
  TypeOK <=> /\ PlaceTypes /\ LinkTypes /\ DataTypes /\ CountTypes /\ FlagTypes
             /\ drive \in DriveTypes
BY DEF TypeOK, PlaceTypes, LinkTypes, DataTypes, CountTypes, FlagTypes, DriveTypes

LEMMA TypesNext ==
  TypeOK' <=> /\ PlaceTypes' /\ LinkTypes' /\ DataTypes' /\ CountTypes' /\ FlagTypes'
              /\ drive' \in DriveTypes
BY DEF TypeOK, PlaceTypes, LinkTypes, DataTypes, CountTypes, FlagTypes, DriveTypes

\* A call of buf_read() or buf_write() is for a buffer there is.
LEMMA CallBuffer ==
  ASSUME TypeOK, Call
  PROVE  \E b \in Bufs :
           /\ Enter(b) /\ b <= made'
           /\ \/ /\ made' = made + 1 /\ b = made' /\ made' \in 0..NBUF
                 /\ \/ flags' = [flags EXCEPT ![b] = {"B_VALID"}]
                    \/ flags' = [flags EXCEPT ![b] = {"B_DIRTY"}]
              \/ made' = made /\ flags' = flags /\ owed[b] = 0
<1>1. made \in Nat /\ made <= NBUF /\ NBUF \in Nat
  BY Types, Sizes DEF CountTypes
<1>2. made < NBUF => made + 1 \in Bufs /\ made + 1 \in 0..NBUF
  BY <1>1 DEF Bufs
<1>3. \A b \in 1..made : b \in Bufs /\ b <= made
  BY <1>1 DEF Bufs
<1>4. CASE BufRead
  <2>1. /\ made + 1 \in Bufs /\ made + 1 \in 0..NBUF /\ made' = made + 1
        /\ flags' = [flags EXCEPT ![made + 1] = {"B_VALID"}]
        /\ Enter(made + 1)
    BY <1>1, <1>2, <1>4 DEF BufRead
  <2>2. made + 1 <= made + 1
    BY <1>1
  <2> QED BY <2>1, <2>2
<1>5. CASE BufWrite
  BY <1>1, <1>2, <1>3, <1>5 DEF BufWrite
<1> QED BY <1>4, <1>5 DEF Call

LEMMA CallTypes ==
  ASSUME TypeOK, Call
  PROVE  TypeOK'
<1>1. PICK b \in Bufs :
           /\ Enter(b) /\ b <= made'
           /\ \/ /\ made' = made + 1 /\ b = made' /\ made' \in 0..NBUF
                 /\ \/ flags' = [flags EXCEPT ![b] = {"B_VALID"}]
                    \/ flags' = [flags EXCEPT ![b] = {"B_DIRTY"}]
              \/ made' = made /\ flags' = flags /\ owed[b] = 0
  BY CallBuffer
<1>2. PlaceTypes'
  BY <1>1, Types DEF PlaceTypes, Enter, Goto, Places, cpu
<1>3. CountTypes'
  <2>1. made' \in 0..NBUF /\ owed' \in [Bufs -> Int]
    BY <1>1, Types DEF CountTypes, Enter
  <2> QED BY <1>1, <2>1, Types DEF CountTypes, Enter, bufs, cpu
<1>4. DataTypes'
  BY <1>1, Types DEF DataTypes, Enter
<1> QED BY <1>1, <1>2, <1>3, <1>4, Types, TypesNext
        DEF Enter, LinkTypes, FlagTypes, bufs, links, cpu

LEMMA StepTypes ==
  ASSUME TypeOK, CallInv, Step
  PROVE  TypeOK'
<1>1. PlaceTypes'
  <2>1. \E w \in Places : Goto(w) \/ at' = at
    BY DEF Step, Look, SetQueue, Head, Walk, Hop, WalkNull, LinkNext, LinkPrev, Count,
           Acquire, Command, locals, Places
  <2>2. at' \in [Procs -> Places]
    BY <2>1, Types DEF PlaceTypes, Goto
  <2>3. UNCHANGED <<cur, buf>>
    BY DEF Step, Look, SetQueue, Head, Walk, Hop, WalkNull, LinkNext, LinkPrev, Count,
           Acquire, Command, cpu, locals
  <2>4. \/ header' = header \/ header' = [header EXCEPT ![cur] = queue]
        \/ /\ header' = [header EXCEPT ![cur] = next[header[cur]]]
           /\ at[cur] = "hop"
    BY DEF Step, Look, SetQueue, Head, Walk, Hop, WalkNull, LinkNext, LinkPrev, Count,
           Acquire, Command, At, locals
  <2>5. header' \in [Procs -> Bufs \cup {NULL}]
    <3>1. header \in [Procs -> Bufs \cup {NULL}] /\ queue \in Bufs \cup {NULL}
      BY Types DEF PlaceTypes, LinkTypes
    <3>2. at[cur] = "hop" => next[header[cur]] \in Bufs \cup {NULL}
      <4>1. at[cur] = "hop" => header[cur] \in Bufs
        BY Types DEF PlaceTypes, CallInv
      <4> QED BY <4>1, Types DEF LinkTypes
    <3> QED BY <2>4, <3>1, <3>2
  <2> QED BY <2>2, <2>3, <2>5, Types DEF PlaceTypes
<1>2. LinkTypes'
  <2>1. mine \in Bufs \cup {NULL} /\ header[cur] \in Bufs \cup {NULL}
    BY Types DEF PlaceTypes, mine
  <2>2. /\ queue' = queue \/ queue' = mine
        /\ next' = next \/ next' = [next EXCEPT ![header[cur]] = mine]
        /\ prev' = prev \/ prev' = [prev EXCEPT ![mine] = header[cur]]
    BY DEF Step, Look, SetQueue, Head, Walk, Hop, WalkNull, LinkNext, LinkPrev, Count,
           Acquire, Command,
           bufs, links
  <2> QED BY <2>1, <2>2, Types DEF LinkTypes
<1>3. DataTypes'
  BY Types DEF DataTypes, Step, Look, SetQueue, Head, Walk, Hop, WalkNull, LinkNext,
               LinkPrev, Count, Acquire,
               Command
<1>4. CountTypes'
  <2>1. /\ UNCHANGED <<made, owed>>
        /\ count' = count \/ count' = count + 1
        /\ ncli' = ncli \/ ncli' = ncli + 1
    BY DEF Step, Look, SetQueue, Head, Walk, Hop, WalkNull, LinkNext, LinkPrev, Count,
           Acquire, Command,
           bufs, cpu
  <2> QED BY <2>1, Types DEF CountTypes
<1>5. FlagTypes'
  <2>1. CASE Acquire
    BY <2>1, Types DEF FlagTypes, Acquire
  <2>2. CASE Command
    BY <2>2, Types DEF FlagTypes, Command, UserIF
  <2>3. CASE ~Acquire /\ ~Command
    BY <2>3, Types DEF FlagTypes, Step, Look, SetQueue, Head, Walk, Hop, WalkNull,
                       LinkNext, LinkPrev, Count, cpu
  <2> QED BY <2>1, <2>2, <2>3
<1>6. drive' \in DriveTypes
  <2>1. queue # NULL => Asked \subseteq DriveTypes
    <3>1. queue # NULL => queue \in Bufs
      BY Types DEF LinkTypes
    <3>2. \A n \in 1..SECTORS : n \in 0..SECTORS
      BY Sizes
    <3>3. SECTORS \in 0..SECTORS
      BY Sizes
    <3>4. ASSUME queue # NULL, "B_DIRTY" \in flags[queue], NEW n \in 1..SECTORS
          PROVE  [NoCommand EXCEPT !.cmd = "write", !.for = queue, !.left = n,
                                   !.taken = FALSE] \in DriveTypes
      BY <3>1, <3>2, <3>4, NoCommandType DEF DriveTypes
    <3>5. ASSUME queue # NULL
          PROVE  [NoCommand EXCEPT !.cmd = "read", !.for = queue, !.left = SECTORS,
                                   !.taken = FALSE] \in DriveTypes
      BY <3>1, <3>3, <3>5, NoCommandType DEF DriveTypes
    <3> QED BY <3>4, <3>5 DEF Asked
  <2>2. drive' = drive \/ (queue # NULL /\ drive' \in Asked)
    BY DEF Step, Look, SetQueue, Head, Walk, Hop, WalkNull, LinkNext, LinkPrev, Count,
           Acquire, Command
  <2> QED BY <2>1, <2>2, Types
<1> QED BY <1>1, <1>2, <1>3, <1>4, <1>5, <1>6, TypesNext

LEMMA DriveTypesKept ==
  ASSUME TypeOK, Drive
  PROVE  TypeOK'
<1>1. drive' \in DriveTypes /\ irr' = TRUE
  <2>1. CASE Sector
    <3>1. drive.left > 0 => drive.left - 1 \in 0..SECTORS
      BY Types, Sizes DEF DriveTypes
    <3>2. /\ drive.left > 0 /\ irr' = TRUE
          /\ \/ drive' = [drive EXCEPT !.ready = TRUE]
             \/ drive' = [drive EXCEPT !.left = drive.left - 1]
      BY <2>1 DEF Sector, Busy
    <3> QED BY <3>1, <3>2, Types DEF DriveTypes
  <2>2. CASE SectorFails
    <3>1. 0 \in 0..SECTORS
      BY Sizes
    <3> QED BY <2>2, <3>1, Types DEF SectorFails, DriveTypes
  <2> QED BY <2>1, <2>2 DEF Drive
<1>2. UNCHANGED <<bufs, links, flags, data, made, locked, cpu, locals, fault, owed>>
  BY DEF Drive, Sector, SectorFails
<1> QED BY <1>1, <1>2, Types, TypesNext
        DEF PlaceTypes, LinkTypes, DataTypes, CountTypes, FlagTypes,
            bufs, links, cpu, locals
\* What ide_handler() does to the drive.
LEMMA HandlerDrive ==
  ASSUME TypeOK, DriveInv, IdeHandler
  PROVE  /\ drive' \in DriveTypes /\ irr' \in BOOLEAN
         /\ \/ /\ Fetches(queue) /\ drive.ready
               /\ \E n \in 1..drive.left :
                    /\ drive' = [drive EXCEPT !.left = drive.left - n,
                                              !.ready = FALSE, !.taken = TRUE]
                    /\ irr' = (n > 1)
            \/ /\ ~(Fetches(queue) /\ drive.ready)
               /\ drive' = [drive EXCEPT !.taken = TRUE] /\ irr' = FALSE
<1>1. drive \in DriveTypes
  BY Types
<1>2. CASE Fetches(queue) /\ drive.ready
  <2>1. PICK n \in 1..SECTORS : n <= drive.left /\ Taken(n)
    BY <1>2 DEF IdeHandler, Fetch
  <2>2. /\ drive' = [drive EXCEPT !.left = drive.left - n, !.ready = FALSE,
                         !.taken = TRUE]
        /\ irr' = (n > 1)
    BY <1>2, <2>1 DEF Taken
  <2>3. n \in 1..drive.left /\ drive.left - n \in 0..SECTORS
    BY <1>1, <2>1, Sizes DEF DriveTypes
  <2>4. drive' \in DriveTypes
    BY <1>1, <2>2, <2>3 DEF DriveTypes
  <2>5. irr' \in BOOLEAN
    BY <2>2
  <2> QED BY <1>2, <2>2, <2>3, <2>4, <2>5
<1>3. CASE ~(Fetches(queue) /\ drive.ready)
  <2>1. drive' = [drive EXCEPT !.taken = TRUE] /\ irr' = FALSE
    BY <1>3 DEF IdeHandler, Fetch, Taken
  <2>2. drive' \in DriveTypes
    BY <1>1, <2>1 DEF DriveTypes
  <2> QED BY <1>3, <2>1, <2>2
<1> QED BY <1>2, <1>3

\* What it does to the buffer at the head of the queue.
LEMMA HandlerData ==
  ASSUME TypeOK, DriveInv, IdeHandler
  PROVE  \/ /\ Fetches(queue)
            /\ flags' = [flags EXCEPT ![queue] = {"B_DIRTY"}]
            /\ \E d \in [1..SECTORS -> Contents] :
                 /\ data' = [data EXCEPT ![queue] = d]
                 /\ drive.ready =>
                      d[1] = <<"read", drive.for, SECTORS - drive.left + 1>>
         \/ ~Fetches(queue) /\ UNCHANGED <<flags, data>>
<1>1. CASE Fetches(queue)
  <2>1. PICK n \in 1..SECTORS : (drive.ready => n <= drive.left) /\ Insl(queue, n)
    BY <1>1 DEF IdeHandler, Fetch
  <2> DEFINE first == SECTORS - drive.left
             d == [i \in 1..SECTORS |->
                    IF drive.ready /\ i <= n THEN <<"read", drive.for, first + i>>
                    ELSE <<"junk">>]
  <2>2. data' = [data EXCEPT ![queue] = d]
    BY <2>1 DEF Insl
  <2>3. ASSUME drive.ready
        PROVE  drive.for \in Bufs
    <3>1. drive.for \in 1..made /\ made \in Nat /\ made <= NBUF
      BY <2>3, Types, Sizes DEF DriveInv, CountTypes
    <3> QED BY <3>1, Sizes DEF Bufs
  <2>4. ASSUME NEW i \in 1..SECTORS, drive.ready, i <= n
        PROVE  first + i \in 1..SECTORS
    BY <2>1, <2>4, Types, Sizes DEF DriveTypes
  <2>5. d \in [1..SECTORS -> Contents]
    <3> SUFFICES ASSUME NEW i \in 1..SECTORS PROVE d[i] \in Contents
      OBVIOUS
    <3> HIDE DEF first
    <3> QED BY <2>3, <2>4 DEF Contents
  <2>6. drive.ready => d[1] = <<"read", drive.for, first + 1>>
    BY <2>1, Sizes
  <2>7. flags' = [flags EXCEPT ![queue] = {"B_DIRTY"}]
    BY <1>1 DEF IdeHandler, Fetch
  <2> HIDE DEF d
  <2> QED BY <1>1, <2>2, <2>5, <2>6, <2>7
<1>2. CASE ~Fetches(queue)
  BY <1>2 DEF IdeHandler, Fetch
<1> QED BY <1>1, <1>2

LEMMA HandlerTypes ==
  ASSUME TypeOK, DriveInv, Handle \/ Tick
  PROVE  TypeOK'
<1>1. CASE IdeHandler
  <2>1. queue \in Bufs
    BY <1>1, Types DEF IdeHandler, LinkTypes
  <2>2. LinkTypes'
    <3>1. /\ queue' \in {queue, next[queue]}
          /\ next' = next \/ next' = [next EXCEPT ![prev[queue]] = next[queue]]
          /\ prev' = prev \/ prev' = [prev EXCEPT ![next[queue]] = prev[queue]]
      BY <1>1 DEF IdeHandler, BufRemove
    <3>2. next[queue] \in Bufs \cup {NULL} /\ prev[queue] \in Bufs \cup {NULL}
      BY <2>1, Types DEF LinkTypes
    <3> QED BY <2>1, <3>1, <3>2, Types DEF LinkTypes
  <2>3. DataTypes'
    BY <1>1, <2>1, HandlerData, Types DEF DataTypes
  <2>4. CountTypes'
    BY <1>1, <2>1, Types DEF IdeHandler, BufRemove, CountTypes, cpu
  <2>5. UNCHANGED <<locals, cpu, locked, fault>>
    BY <1>1 DEF IdeHandler
  <2>6. PlaceTypes' /\ FlagTypes'
    BY <1>1, <2>5, HandlerDrive, Types DEF PlaceTypes, FlagTypes, locals, cpu
  <2> QED BY <1>1, <2>2, <2>3, <2>4, <2>6, HandlerDrive, TypesNext
<1>2. CASE IdeHandlerNoBuf
  BY <1>2, Types, TypesNext
     DEF IdeHandlerNoBuf, PlaceTypes, LinkTypes, DataTypes, CountTypes, FlagTypes,
         bufs, links, cpu, locals
<1>3. CASE Tick
  BY <1>3, Types, TypesNext
     DEF Tick, PlaceTypes, LinkTypes, DataTypes, CountTypes, FlagTypes,
         bufs, links, locals
<1> QED BY <1>1, <1>2, <1>3 DEF Handle
LEMMA TypesKept ==
  ASSUME TypeOK, CallInv, DriveInv, [Next]_vars
  PROVE  TypeOK'
<1>1. CASE UNCHANGED vars
  BY <1>1, Types, TypesNext
     DEF vars, PlaceTypes, LinkTypes, DataTypes, CountTypes, FlagTypes,
         bufs, links, cpu, locals
<1> QED BY <1>1, CallTypes, StepTypes, DriveTypesKept, HandlerTypes DEF Next

-----------------------------------------------------------------------------
(* Places and flags.                                                       *)

\* The drive, its interrupt and a tick leave the processes where they are.
LEMMA PlacesKept ==
  ASSUME Drive \/ Handle \/ Tick \/ UNCHANGED vars
  PROVE  UNCHANGED locals
BY DEF Drive, Sector, SectorFails, Handle, IdeHandler, IdeHandlerNoBuf, Tick, vars

LEMMA CallInvKept ==
  ASSUME TypeOK, CallInv, [Next]_vars
  PROVE  CallInv'
<1>1. cur \in Procs /\ at \in [Procs -> Places]
      /\ buf \in [Procs -> Bufs \cup {NULL}] /\ header \in [Procs -> Bufs \cup {NULL}]
  BY Types DEF PlaceTypes
<1>2. CASE Call
  <2>1. PICK b \in Bufs : Enter(b)
    BY <1>2, CallBuffer
  <2>2. b # NULL
    BY Sizes
  <2> QED BY <1>1, <2>1, <2>2 DEF Enter, Goto, CallInv, Walking
<1>3. CASE Look
  BY <1>1, <1>3 DEF Look, At, Goto, CallInv, Walking
<1>4. CASE SetQueue
  BY <1>1, <1>4 DEF SetQueue, At, Goto, CallInv, Walking
<1>5. CASE Head \/ Walk \/ Hop
  BY <1>1, <1>5 DEF Head, Walk, Hop, At, Goto, CallInv
<1>6. CASE LinkNext
  BY <1>1, <1>6 DEF LinkNext, At, Goto, CallInv, Walking
<1>7. CASE LinkPrev
  BY <1>1, <1>7 DEF LinkPrev, At, Goto, CallInv, Walking
<1>8. CASE Count
  BY <1>1, <1>8 DEF Count, At, Goto, CallInv, Walking
<1>9. CASE Acquire
  BY <1>1, <1>9 DEF Acquire, At, Goto, CallInv, Walking
<1>10. CASE Command
  BY <1>1, <1>10 DEF Command, At, Goto, CallInv, Walking
<1>11. CASE UNCHANGED locals
  BY <1>11 DEF locals, CallInv, Walking
<1> QED BY <1>2, <1>3, <1>4, <1>5, <1>6, <1>7, <1>8, <1>9, <1>10, <1>11, PlacesKept
        DEF Next, Step, WalkNull

LEMMA BufInvKept ==
  ASSUME TypeOK, BufInv, DriveInv, [Next]_vars
  PROVE  BufInv'
<1>1. made \in Nat /\ flags \in [Bufs -> SUBSET {"B_VALID", "B_DIRTY"}]
      /\ \A b \in Bufs : b \in Nat
  BY Types, Sizes DEF CountTypes, DataTypes, Bufs
<1>2. CASE Call
  BY <1>1, <1>2, CallBuffer DEF BufInv
<1>3. CASE IdeHandler
  <2>1. queue \in Bufs /\ made' = made
    BY <1>3, Types DEF IdeHandler, LinkTypes
  <2>2. \/ flags' = flags
        \/ flags' = [flags EXCEPT ![queue] = {"B_DIRTY"}] /\ "B_VALID" \in flags[queue]
    BY <1>3, HandlerData DEF Fetches
  <2> QED BY <1>1, <2>1, <2>2 DEF BufInv
<1>4. CASE Step \/ Drive \/ IdeHandlerNoBuf \/ Tick \/ UNCHANGED vars
  <2>1. UNCHANGED <<flags, made>>
    BY <1>4 DEF Step, Look, SetQueue, Head, Walk, Hop, WalkNull, LinkNext, LinkPrev,
                Count, Acquire, Command,
                Drive, Sector, SectorFails, IdeHandlerNoBuf, Tick, vars
  <2> QED BY <2>1 DEF BufInv
<1> QED BY <1>2, <1>3, <1>4 DEF Next, Handle

-----------------------------------------------------------------------------
(* The lock and the drive.                                                 *)

\* A process waits for the drive only before the first command.
LEMMA WaitIsFirst ==
  ASSUME LockInv, At("wait"), TypeOK
  PROVE  locked /\ drive = NoCommand /\ ~fl_if
BY Types DEF LockInv, At, Running, PlaceTypes

\* What Command asks the drive for.
LEMMA CommandAsks ==
  ASSUME TypeOK, LockInv, DriveInv, Unanswered => LinksInv, Command
  PROVE  /\ drive = NoCommand /\ ~irr /\ locked
         /\ queue \in Bufs /\ queue \in 1..made
         /\ drive'.cmd = (IF "B_DIRTY" \in flags[queue] THEN "write" ELSE "read")
         /\ drive'.for = queue /\ ~drive'.taken
         /\ ~drive'.ready /\ ~drive'.failed /\ ~drive'.fault
         /\ drive'.left \in 1..SECTORS
         /\ drive'.cmd = "read" => drive'.left = SECTORS
<1>1. drive = NoCommand /\ locked
  BY WaitIsFirst DEF Command
<1>2. ~irr /\ Unanswered
  BY <1>1 DEF DriveInv, NoCommand, Unanswered
<1>3. queue # NULL
  BY <1>2, Types DEF LinksInv, QueueThere, Command, At, PlaceTypes
<1>4. queue \in Bufs /\ queue \in 1..made
  BY <1>2, <1>3, Types, Sizes DEF LinksInv, HeadFirst, LinkTypes, CountTypes, Bufs
<1>5. drive' \in Asked
  BY <1>3 DEF Command
<1>6. CASE "B_DIRTY" \in flags[queue]
  BY <1>1, <1>2, <1>4, <1>5, <1>6 DEF Asked, NoCommand
<1>7. CASE "B_DIRTY" \notin flags[queue]
  <2>1. SECTORS \in 1..SECTORS
    BY Sizes
  <2> QED BY <1>1, <1>2, <1>4, <1>5, <1>7, <2>1 DEF Asked, NoCommand
<1> QED BY <1>6, <1>7

LEMMA LockInvKept ==
  ASSUME TypeOK, LockInv, DriveInv, Unanswered => LinksInv, [Next]_vars
  PROVE  LockInv'
<1>1. cur \in Procs /\ at \in [Procs -> Places] /\ ncli \in Nat
  BY Types DEF PlaceTypes, CountTypes
<1>2. CASE Call
  <2>1. PICK b \in Bufs : Enter(b)
    BY <1>2, CallBuffer
  <2>2. fault = "none" /\ at[cur] = "user"
    BY <1>2 DEF Call, BufRead, BufWrite, At, Running
  <2> QED BY <1>1, <2>1, <2>2 DEF Enter, Goto, cpu, LockInv
<1>3. CASE Look \/ SetQueue \/ Head \/ Walk \/ Hop \/ LinkNext \/ LinkPrev \/ Count
  <2>1. PICK w \in Places \ {"wait"} : Goto(w)
    BY <1>3 DEF Look, SetQueue, Head, Walk, Hop, LinkNext, LinkPrev, Count, Places
  <2>2. UNCHANGED <<locked, cpu, drive, fault>> /\ fault = "none" /\ at[cur] # "wait"
    BY <1>3 DEF Look, SetQueue, Head, Walk, Hop, LinkNext, LinkPrev, Count, At, Running
  <2> QED BY <1>1, <2>1, <2>2 DEF Goto, cpu, LockInv
<1>4. CASE Acquire
  BY <1>1, <1>4 DEF Acquire, At, Running, Goto, LockInv
<1>5. CASE Command
  <2>1. drive'.cmd # "none" /\ locked
    BY <1>5, CommandAsks
  <2> QED BY <1>1, <1>5, <2>1 DEF Command, At, Running, Goto, UserIF, LockInv
<1>6. CASE Drive
  <2>1. UNCHANGED <<locked, cpu, at, fault>> /\ Busy
    BY <1>6 DEF Drive, Sector, SectorFails, locals
  <2>2. locked /\ drive # NoCommand
    BY <2>1 DEF LockInv, Busy, NoCommand
  <2>3. drive'.cmd = drive.cmd /\ drive.cmd # "none"
    BY <1>6, <2>2, Types DEF Drive, Sector, SectorFails, DriveTypes, DriveInv
  <2> QED BY <2>1, <2>2, <2>3 DEF LockInv, cpu
<1>7. CASE Handle
  <2>1. fl_if /\ irr /\ fault = "none" /\ UNCHANGED <<locked, cpu, at>>
    BY <1>7 DEF Handle, IdeHandler, IdeHandlerNoBuf, Running, locals
  <2>2. locked
    BY <2>1 DEF LockInv, DriveInv, NoCommand
  <2>3. \A p \in Procs : at[p] # "wait"
    BY <2>1, <2>2 DEF LockInv
  <2>4. drive'.cmd = drive.cmd /\ drive.cmd # "none"
    <3>1. CASE IdeHandler
      BY <2>1, <3>1, HandlerDrive, Types DEF DriveTypes, DriveInv
    <3>2. CASE IdeHandlerNoBuf
      BY <2>1, <3>2 DEF IdeHandlerNoBuf, DriveInv
    <3> QED BY <1>7, <3>1, <3>2 DEF Handle
  <2> QED BY <2>1, <2>2, <2>3, <2>4 DEF LockInv, cpu
<1>8. CASE Tick
  <2>1. fl_if /\ fault = "none" /\ UNCHANGED <<locked, ncli, fl_if, at, drive>>
    BY <1>8 DEF Tick, Running, locals
  <2>2. CASE ncli = 0
    <3>1. ~locked /\ fault' = "none"
      BY <1>1, <1>8, <2>1, <2>2 DEF Tick, LockInv
    <3> QED BY <2>1, <3>1 DEF LockInv
  <2>3. CASE ncli # 0
    <3>1. locked /\ fault' # "none"
      BY <1>1, <1>8, <2>1, <2>3 DEF Tick, LockInv
    <3> QED BY <2>1, <3>1 DEF LockInv
  <2> QED BY <2>2, <2>3
<1>9. CASE UNCHANGED vars
  BY <1>9 DEF vars, cpu, locals, LockInv
<1>10. CASE WalkNull
  <2>1. at[cur] = "walk" /\ header[cur] = NULL /\ fault = "none" /\ fault' # "none"
        /\ UNCHANGED <<locked, cpu, locals, drive>>
    BY <1>10 DEF WalkNull, At, Running
  <2>2. drive.cmd # "none"
    BY <1>1, <2>1 DEF Unanswered, LinksInv, QueueThere
  <2>3. locked
    BY <2>2 DEF LockInv, NoCommand
  <2> QED BY <2>1, <2>2, <2>3 DEF LockInv, cpu, locals
<1> QED BY <1>2, <1>3, <1>4, <1>5, <1>6, <1>7, <1>8, <1>9, <1>10 DEF Next, Step

LEMMA DriveInvKept ==
  ASSUME TypeOK, LockInv, DriveInv, Unanswered => LinksInv, HeadInv, [Next]_vars
  PROVE  DriveInv'
<1>1. drive \in DriveTypes /\ made \in Nat /\ irr \in BOOLEAN
  <2>1. drive \in DriveTypes /\ CountTypes /\ FlagTypes
    BY Types
  <2>2. made \in Nat
    BY <2>1, Sizes DEF CountTypes
  <2> QED BY <2>1, <2>2 DEF FlagTypes
<1>2. CASE Call
  <2>1. UNCHANGED <<drive, irr>> /\ made' \in {made, made + 1}
    BY <1>2, CallBuffer DEF Enter
  <2> QED BY <1>1, <2>1 DEF DriveInv
<1>3. CASE Look \/ SetQueue \/ Head \/ Walk \/ Hop \/ WalkNull \/ LinkNext
        \/ LinkPrev \/ Count \/ Acquire
           \/ IdeHandlerNoBuf \/ Tick \/ UNCHANGED vars
  <2>1. UNCHANGED <<drive, made>> /\ (irr' = irr \/ irr' = FALSE)
    BY <1>3 DEF Look, SetQueue, Head, Walk, Hop, WalkNull, LinkNext, LinkPrev, Count,
                Acquire,
                IdeHandlerNoBuf, Tick, vars
  <2> QED BY <2>1 DEF DriveInv
<1>4. CASE Command
  <2>1. UNCHANGED <<made, irr>>
    BY <1>4 DEF Command
  <2> QED BY <1>4, <2>1, CommandAsks, Sizes DEF DriveInv
<1>5. CASE Sector
  <2>1. /\ drive.left > 0 /\ ~drive.ready /\ irr' = TRUE /\ made' = made
        /\ drive' = IF drive.cmd = "read" THEN [drive EXCEPT !.ready = TRUE]
                    ELSE [drive EXCEPT !.left = drive.left - 1]
    BY <1>5 DEF Sector, Busy
  <2>2. drive.cmd # "none" /\ drive.left \in 1..SECTORS
    BY <1>1, <2>1, Sizes DEF DriveInv, NoCommand, DriveTypes
  <2>3. CASE drive.cmd = "read"
    <3>1. /\ drive'.cmd = "read" /\ drive'.for = drive.for /\ drive'.left = drive.left
          /\ drive'.ready /\ drive'.failed = drive.failed
          /\ drive'.fault = drive.fault /\ drive'.taken = drive.taken
      BY <1>1, <2>1, <2>3 DEF DriveTypes
    <3>2. ~drive.failed
      BY <2>1 DEF DriveInv
    <3>3. drive'.left > 0 /\ irr' /\ made' = made
      BY <2>1, <3>1
    <3> QED BY <2>2, <2>3, <3>1, <3>2, <3>3 DEF DriveInv
  <2>4. CASE drive.cmd # "read"
    <3>1. /\ drive'.cmd = drive.cmd /\ drive'.for = drive.for
          /\ drive'.ready = drive.ready /\ drive'.failed = drive.failed
          /\ drive'.fault = drive.fault /\ drive'.taken = drive.taken
          /\ drive'.left = drive.left - 1
      BY <1>1, <2>1, <2>4 DEF DriveTypes
    <3>2. ~drive.failed
      BY <2>1 DEF DriveInv
    <3>3. drive'.left < SECTORS /\ irr' /\ made' = made
      BY <2>1, <2>2, <3>1, Sizes
    <3> QED BY <2>1, <2>2, <2>4, <3>1, <3>2, <3>3 DEF DriveInv
  <2> QED BY <2>3, <2>4
<1>6. CASE SectorFails
  <2>1. PICK f \in BOOLEAN :
          drive' = [drive EXCEPT !.left = 0, !.failed = TRUE, !.fault = f]
    BY <1>6 DEF SectorFails
  <2>2. drive.left > 0 /\ ~drive.ready /\ irr' = TRUE /\ made' = made
    BY <1>6 DEF SectorFails, Busy
  <2>3. drive.cmd # "none"
    BY <2>2 DEF DriveInv, NoCommand
  <2> QED BY <1>1, <2>1, <2>2, <2>3, Sizes DEF DriveInv, DriveTypes
<1>7. CASE IdeHandler
  <2>1. made' = made /\ irr
    BY <1>7 DEF IdeHandler
  <2>2. drive.cmd # "none"
    BY <2>1 DEF DriveInv
  <2>3. drive.left < SECTORS \/ drive.ready
    BY <2>1, <2>2 DEF DriveInv
  <2>4. CASE Fetches(queue) /\ drive.ready
    <3>1. PICK n \in 1..drive.left :
            drive' = [drive EXCEPT !.left = drive.left - n,
                                   !.ready = FALSE, !.taken = TRUE]
      BY <1>7, <2>4, HandlerDrive
    <3>2. drive.left - n < SECTORS /\ drive.left \in 0..SECTORS
      BY <1>1, <3>1, Sizes DEF DriveTypes
    <3>3. ~drive.failed
      BY <2>4 DEF DriveInv
    <3> QED BY <1>1, <2>1, <2>2, <3>1, <3>2, <3>3 DEF DriveInv, DriveTypes
  <2>5. CASE ~(Fetches(queue) /\ drive.ready)
    <3>1. drive' = [drive EXCEPT !.taken = TRUE] /\ irr' = FALSE
      BY <1>7, <2>5, HandlerDrive
    <3>2. drive.left < SECTORS
      <4>1. ASSUME drive.ready, ~drive.taken
            PROVE  Fetches(queue)
        BY <4>1 DEF DriveInv, HeadInv, Fetches
      <4> QED BY <1>7, <2>1, <2>2, <2>5, <4>1 DEF DriveInv
    <3> QED BY <1>1, <2>1, <2>2, <3>1, <3>2 DEF DriveInv, DriveTypes
  <2> QED BY <2>4, <2>5
<1> QED BY <1>2, <1>3, <1>4, <1>5, <1>6, <1>7 DEF Next, Step, Drive, Handle
-----------------------------------------------------------------------------
(* The links before the first answer.                                      *)

\* There is only one command.
LEMMA AnswerStays ==
  ASSUME TypeOK, LockInv, DriveInv, [Next]_vars, Unanswered'
  PROVE  Unanswered
<1> SUFFICES ASSUME drive.cmd # "none", drive.taken
             PROVE  drive'.cmd # "none" /\ drive'.taken
  BY DEF Unanswered
<1>1. drive \in DriveTypes
  BY Types
<1>2. CASE Command
  BY <1>2, WaitIsFirst DEF Command, NoCommand
<1>3. CASE Sector
  BY <1>1, <1>3 DEF Sector, DriveTypes
<1>4. CASE SectorFails
  BY <1>1, <1>4 DEF SectorFails, DriveTypes
<1>5. CASE IdeHandler
  BY <1>1, <1>5, HandlerDrive DEF DriveTypes
<1>6. CASE ~Command /\ ~Sector /\ ~SectorFails /\ ~IdeHandler
  <2>1. drive' = drive
    BY <1>6 DEF Next, Call, BufRead, BufWrite, Enter, Step, Look, SetQueue, Head, Walk,
                Hop, WalkNull,
                LinkNext, LinkPrev, Count, Acquire, Drive, Handle, IdeHandlerNoBuf,
                Tick, vars
  <2> QED BY <2>1
<1> QED BY <1>2, <1>3, <1>4, <1>5, <1>6

\* The first interrupt is the first answer.
LEMMA HandlerAnswers ==
  ASSUME TypeOK, DriveInv, IdeHandler
  PROVE  ~Unanswered'
<1>1. drive.cmd # "none" /\ drive \in DriveTypes
  BY Types DEF IdeHandler, DriveInv
<1>2. drive'.cmd = drive.cmd /\ drive'.taken
  BY <1>1, HandlerDrive DEF DriveTypes
<1> QED BY <1>1, <1>2 DEF Unanswered

\* A call takes a buffer of its own.
LEMMA CallLinks ==
  ASSUME TypeOK, CallInv, LinksInv, Call
  PROVE  LinksInv'
<1>1. /\ cur \in Procs /\ at \in [Procs -> Places]
      /\ buf \in [Procs -> Bufs \cup {NULL}] /\ header \in [Procs -> Bufs \cup {NULL}]
  BY Types DEF PlaceTypes
<1>2. /\ made \in Nat /\ owed \in [Bufs -> Int]
      /\ \A b \in Bufs : b \in Nat \ {0}
      /\ Bufs \cup {NULL} \subseteq Nat
  BY Types, Sizes DEF CountTypes, Bufs
<1>3. /\ queue \in Bufs \cup {NULL}
      /\ prev \in [Bufs -> Bufs \cup {NULL}] /\ next \in [Bufs -> Bufs \cup {NULL}]
  BY Types DEF LinkTypes
<1>4. PICK b \in Bufs : Enter(b) /\ b = made' /\ made' = made + 1
  <2>1. PICK b \in Bufs : /\ Enter(b) /\ b <= made'
                          /\ \/ b = made' /\ made' = made + 1
                             \/ made' = made /\ owed[b] = 0
    BY CallBuffer
  <2>2. b <= made => owed[b] = 1
    BY DEF LinksInv, MadeLinked
  <2> QED BY <2>1, <2>2
<1>5. /\ UNCHANGED <<queue, next, prev, header>>
      /\ at' = [at EXCEPT ![cur] = "look"] /\ buf' = [buf EXCEPT ![cur] = b]
      /\ owed' = [owed EXCEPT ![b] = owed[b] + 1]
  BY <1>4 DEF Enter, Goto, bufs, links
<1>6. at[cur] = "user"
  BY DEF Call, BufRead, BufWrite, At
<1>7. b > made /\ made' > made
  BY <1>2, <1>4
<1>8. HeadFirst'
  BY <1>2, <1>3, <1>4, <1>5 DEF LinksInv, HeadFirst
<1>9. MadeLinked'
  BY <1>2, <1>3, <1>4, <1>5, <1>7 DEF LinksInv, MadeLinked
<1>10. MadeHeld'
  BY <1>1, <1>2, <1>4, <1>5, <1>6, <1>7 DEF LinksInv, MadeHeld, Walking
<1>11. NotYetLinked'
  <2>1. /\ queue # b /\ prev[b] = NULL
        /\ \A c \in Bufs : next[c] # b
        /\ \A q \in Procs : Walking(q) => header[q] # b
    BY <1>1, <1>2, <1>3, <1>7 DEF LinksInv, HeadFirst, MadeLinked, MadeHeld
  <2> QED BY <1>1, <1>5, <1>6, <2>1 DEF LinksInv, NotYetLinked, Walking, Unlinked
<1>12. OwnBuffer'
  <2>1. \A q \in Procs : at[q] # "user" => buf[q] # b
    BY <1>1, <1>2, <1>7 DEF LinksInv, MadeHeld
  <2> QED BY <1>1, <1>5, <1>6, <2>1 DEF LinksInv, OwnBuffer
<1>13. QueueThere'
  BY <1>1, <1>5 DEF LinksInv, QueueThere
<1> QED BY <1>8, <1>9, <1>10, <1>11, <1>12, <1>13 DEF LinksInv
\* The call goes on with one access of the queue after the other.
LEMMA StepLinks ==
  ASSUME TypeOK, CallInv, LinksInv, Step
  PROVE  LinksInv'
<1>1. /\ cur \in Procs /\ at \in [Procs -> Places]
      /\ buf \in [Procs -> Bufs \cup {NULL}] /\ header \in [Procs -> Bufs \cup {NULL}]
  BY Types DEF PlaceTypes
<1>2. made \in Nat /\ Bufs \cup {NULL} \subseteq Nat /\ NULL = 0 /\ NULL \notin Bufs
  BY Types, Sizes DEF CountTypes, Bufs
<1>3. /\ queue \in Bufs \cup {NULL}
      /\ prev \in [Bufs -> Bufs \cup {NULL}] /\ next \in [Bufs -> Bufs \cup {NULL}]
  BY Types DEF LinkTypes
<1>4. at[cur] # "user" => mine \in Bufs
  BY <1>1 DEF CallInv, mine
<1>5. Walking(cur) => header[cur] \in Bufs
  BY <1>1 DEF CallInv, LinksInv, QueueThere, Walking
<1>6. CASE Look
  <2>1. /\ UNCHANGED <<queue, next, prev, buf, header, made, owed>>
        /\ at[cur] = "look"
        /\ \/ queue = NULL /\ at' = [at EXCEPT ![cur] = "first"]
           \/ queue # NULL /\ at' = [at EXCEPT ![cur] = "head"]
    BY <1>6 DEF Look, At, Goto, links, bufs
  <2>2. HeadFirst' /\ MadeLinked'
    BY <2>1 DEF LinksInv, HeadFirst, MadeLinked
  <2>3. MadeHeld'
    BY <1>1, <2>1 DEF LinksInv, MadeHeld, Walking
  <2>4. NotYetLinked'
    BY <1>1, <2>1 DEF LinksInv, NotYetLinked, Walking, Unlinked
  <2>5. OwnBuffer' /\ QueueThere'
    BY <1>1, <2>1 DEF LinksInv, OwnBuffer, QueueThere
  <2> QED BY <2>2, <2>3, <2>4, <2>5 DEF LinksInv
<1>7. CASE SetQueue
  <2>1. /\ UNCHANGED <<header, next, prev, buf, made, owed>> /\ at[cur] = "first"
        /\ queue' = mine /\ at' = [at EXCEPT ![cur] = "count"]
        /\ mine # NULL
    BY <1>2, <1>4, <1>7 DEF SetQueue, At, Goto, links
  <2>2. HeadFirst' /\ MadeLinked'
    BY <1>1, <2>1 DEF LinksInv, HeadFirst, MadeLinked, MadeHeld, NotYetLinked,
                      Unlinked, mine
  <2>3. MadeHeld'
    BY <1>1, <2>1 DEF LinksInv, MadeHeld, Walking
  <2>4. NotYetLinked'
    BY <1>1, <2>1 DEF LinksInv, NotYetLinked, OwnBuffer, Walking, Unlinked, mine
  <2>5. OwnBuffer' /\ QueueThere'
    BY <1>1, <2>1 DEF LinksInv, OwnBuffer, QueueThere
  <2> QED BY <2>2, <2>3, <2>4, <2>5 DEF LinksInv
<1>8. CASE Head \/ Hop
  <2>1. /\ UNCHANGED <<queue, next, prev, buf, made, owed>>
        /\ at' = [at EXCEPT ![cur] = "walk"]
        /\ \/ /\ at[cur] = "head" /\ queue # NULL
              /\ header' = [header EXCEPT ![cur] = queue]
           \/ /\ at[cur] = "hop" /\ next[header[cur]] # NULL /\ header[cur] \in Bufs
              /\ header' = [header EXCEPT ![cur] = next[header[cur]]]
    BY <1>1, <1>5, <1>8
       DEF Head, Hop, At, Goto, links, bufs, LinksInv, QueueThere, Walking
  <2>2. HeadFirst' /\ MadeLinked'
    BY <2>1 DEF LinksInv, HeadFirst, MadeLinked
  <2>3. MadeHeld'
    BY <1>1, <2>1 DEF LinksInv, HeadFirst, MadeLinked, MadeHeld, Walking
  <2>4. NotYetLinked'
    BY <1>1, <2>1 DEF LinksInv, NotYetLinked, Walking, Unlinked
  <2>5. OwnBuffer'
    BY <1>1, <2>1 DEF LinksInv, OwnBuffer
  <2>6. QueueThere'
    BY <1>1, <2>1 DEF LinksInv, QueueThere
  <2> QED BY <2>2, <2>3, <2>4, <2>5, <2>6 DEF LinksInv
<1>9. CASE LinkNext
  <2>1. /\ UNCHANGED <<queue, header, prev, buf, made, owed>> /\ at[cur] = "next"
        /\ next' = [next EXCEPT ![header[cur]] = mine]
        /\ at' = [at EXCEPT ![cur] = "prev"]
    BY <1>9 DEF LinkNext, At, Goto, bufs
  <2>2. HeadFirst'
    BY <2>1 DEF LinksInv, HeadFirst
  <2>3. header[cur] # mine /\ mine <= made /\ mine \in Bufs /\ header[cur] \in Bufs
    BY <1>1, <1>4, <1>5, <2>1 DEF LinksInv, MadeHeld, NotYetLinked, Walking, Unlinked,
                                  mine
  <2>4. MadeLinked'
    BY <1>1, <1>3, <2>1, <2>3 DEF LinksInv, MadeLinked
  <2>5. MadeHeld'
    BY <1>1, <2>1 DEF LinksInv, MadeHeld, Walking
  <2>6. NotYetLinked'
    BY <1>1, <1>3, <2>1, <2>3 DEF LinksInv, NotYetLinked, OwnBuffer, Walking, Unlinked,
                                  mine
  <2>7. OwnBuffer'
    BY <1>1, <2>1 DEF LinksInv, OwnBuffer
  <2>8. QueueThere'
    <3>1. \A b : next[b] # NULL => next'[b] # NULL
      BY <1>2, <1>3, <2>1, <2>3
    <3> QED BY <1>1, <2>1, <3>1 DEF LinksInv, QueueThere
  <2> QED BY <2>2, <2>4, <2>5, <2>6, <2>7, <2>8 DEF LinksInv
<1>10. CASE LinkPrev
  <2>1. /\ UNCHANGED <<queue, header, next, buf, made, owed>> /\ at[cur] = "prev"
        /\ prev' = [prev EXCEPT ![mine] = header[cur]]
        /\ at' = [at EXCEPT ![cur] = "count"]
    BY <1>10 DEF LinkPrev, At, Goto, bufs
  <2>2. mine # queue /\ mine <= made /\ mine \in Bufs
    BY <1>1, <1>4, <2>1 DEF LinksInv, MadeHeld, NotYetLinked, mine
  <2>3. HeadFirst'
    BY <1>3, <2>1, <2>2 DEF LinksInv, HeadFirst
  <2>4. MadeLinked'
    BY <1>2, <1>3, <2>1, <2>2 DEF LinksInv, MadeLinked
  <2>5. MadeHeld'
    BY <1>1, <2>1 DEF LinksInv, MadeHeld, Walking
  <2>6. NotYetLinked'
    BY <1>1, <1>3, <2>1, <2>2 DEF LinksInv, NotYetLinked, OwnBuffer, Walking, Unlinked,
                                  mine
  <2>7. OwnBuffer' /\ QueueThere'
    BY <1>1, <2>1 DEF LinksInv, OwnBuffer, QueueThere
  <2> QED BY <2>3, <2>4, <2>5, <2>6, <2>7 DEF LinksInv
<1>11. CASE Walk \/ Count \/ Acquire \/ Command
  <2>1. /\ UNCHANGED <<queue, header, next, prev, buf, made, owed>>
        /\ \/ /\ at[cur] \in {"count", "acquire", "wait"}
              /\ \E w \in {"acquire", "wait", "user"} : at' = [at EXCEPT ![cur] = w]
           \/ /\ at[cur] = "walk"
              /\ \/ at' = [at EXCEPT ![cur] = "next"]
                 \/ at' = [at EXCEPT ![cur] = "hop"] /\ next[header[cur]] # NULL
    BY <1>11 DEF Walk, Count, Acquire, Command, At, Goto, bufs, links
  <2>2. HeadFirst' /\ MadeLinked'
    BY <2>1 DEF LinksInv, HeadFirst, MadeLinked
  <2>3. MadeHeld'
    BY <1>1, <2>1 DEF LinksInv, MadeHeld, Walking
  <2>4. NotYetLinked'
    BY <1>1, <2>1 DEF LinksInv, NotYetLinked, Walking, Unlinked
  <2>5. OwnBuffer' /\ QueueThere'
    BY <1>1, <2>1 DEF LinksInv, OwnBuffer, QueueThere
  <2> QED BY <2>2, <2>3, <2>4, <2>5 DEF LinksInv
<1>12. ~WalkNull
  BY <1>1 DEF WalkNull, At, LinksInv, QueueThere
<1> QED BY <1>6, <1>7, <1>8, <1>9, <1>10, <1>11, <1>12 DEF Step

LEMMA LinksKept ==
  ASSUME TypeOK, CallInv, LockInv, DriveInv, Unanswered => LinksInv, [Next]_vars,
         Unanswered'
  PROVE  LinksInv'
<1>1. LinksInv
  BY AnswerStays
<1>2. CASE Drive \/ IdeHandlerNoBuf \/ Tick \/ UNCHANGED vars
  <2>1. UNCHANGED <<queue, next, prev, made, owed, at, buf, header>>
    BY <1>2 DEF Drive, Sector, SectorFails, IdeHandlerNoBuf, Tick, vars, bufs, links,
                locals
  <2> QED BY <1>1, <2>1 DEF LinksInv, HeadFirst, MadeLinked, MadeHeld, NotYetLinked,
                            OwnBuffer, QueueThere, Walking, Unlinked
<1> QED BY <1>1, <1>2, CallLinks, StepLinks, HandlerAnswers DEF Next, Handle
-----------------------------------------------------------------------------
(* The head of the queue and the answer.                                   *)

\* Calls make buffers and leave those there are.
LEMMA CallKeeps ==
  ASSUME TypeOK, Call
  PROVE  /\ UNCHANGED <<queue, data, drive, irr, fault, cur>>
         /\ fault = "none" /\ at[cur] = "user" /\ at' = [at EXCEPT ![cur] = "look"]
         /\ \A b \in 1..made : flags'[b] = flags[b]
<1>1. /\ made \in Nat /\ flags \in [Bufs -> SUBSET {"B_VALID", "B_DIRTY"}]
      /\ 1..made \subseteq Bufs
  BY Types, Sizes DEF CountTypes, DataTypes, Bufs
<1>2. PICK b \in Bufs : /\ Enter(b)
                        /\ \/ /\ made' = made + 1 /\ b = made'
                              /\ \/ flags' = [flags EXCEPT ![b] = {"B_VALID"}]
                                 \/ flags' = [flags EXCEPT ![b] = {"B_DIRTY"}]
                           \/ flags' = flags
  BY CallBuffer
<1>3. \A c \in 1..made : flags'[c] = flags[c]
  <2>1. CASE flags' = flags
    BY <2>1
  <2>2. CASE flags' # flags
    <3>1. \A c \in 1..made : c # b
      BY <1>1, <1>2, <2>2
    <3> QED BY <1>1, <1>2, <2>2, <3>1
  <2> QED BY <2>1, <2>2
<1>4. UNCHANGED <<queue, data, drive, irr, fault,
cur>> /\ at' = [at EXCEPT ![cur] = "look"]
  BY <1>2 DEF Enter, Goto, bufs, cpu
<1>5. fault = "none" /\ at[cur] = "user"
  BY DEF Call, BufRead, BufWrite, At, Running
<1> QED BY <1>3, <1>4, <1>5

\* While the drive works nobody but the process that asked it runs.
LEMMA OneRuns ==
  ASSUME LockInv, DriveInv, drive.cmd # "none"
  PROVE  /\ locked /\ ncli > 0 /\ drive # NoCommand
         /\ fault = "none" => \A p \in Procs : at[p] # "wait"
BY DEF LockInv, NoCommand

LEMMA HeadInvKept ==
  ASSUME DiskInv, [Next]_vars
  PROVE  HeadInv'
<1> USE DEF DiskInv
<1>1. cur \in Procs /\ at \in [Procs -> Places]
  BY Types DEF PlaceTypes
<1>2. CASE Command
  <2>1. queue' = queue /\ flags' = flags /\ cur' = cur /\ at'[cur] = "user"
    BY <1>1, <1>2 DEF Command, Goto, bufs
  <2>2. /\ queue \in Bufs /\ queue \in 1..made /\ drive'.for = queue
        /\ drive'.cmd = "read" => "B_DIRTY" \notin flags[queue]
    BY <1>2, CommandAsks
  <2>3. drive'.cmd = "read" => flags[queue] = {"B_VALID"}
    BY <2>2 DEF BufInv
  <2> QED BY <2>1, <2>2, <2>3 DEF HeadInv
<1>3. ASSUME ~drive.taken, ~Command
      PROVE  HeadInv'
  <2>1. /\ queue = drive.for /\ drive.cmd # "none"
        /\ queue \in 1..made /\ queue # NULL
        /\ fault = "none" => at[cur] # "first"
        /\ drive.cmd = "read" => flags[queue] = {"B_VALID"}
    BY <1>3 DEF HeadInv, DriveInv, NULL
  <2>2. locked /\ ncli > 0
    BY <2>1, OneRuns
  <2>3. CASE Call
    BY <1>1, <2>1, <2>3, CallKeeps DEF HeadInv
  <2>4. CASE Look \/ Head \/ Walk \/ Hop \/ LinkNext \/ LinkPrev \/ Count
    <3>1. /\ UNCHANGED <<queue, drive, flags, cur>>
          /\ \E w \in Places \ {"first"} : Goto(w)
      BY <2>1, <2>4 DEF Look, Head, Walk, Hop, LinkNext, LinkPrev, Count, bufs, cpu, Places
    <3>2. at[cur] # "first" /\ fault = "none"
      BY <2>1, <2>4 DEF Look, Head, Walk, Hop, LinkNext, LinkPrev, Count, At, Running
    <3>3. at'[cur] # "first"
      BY <1>1, <3>1, <3>2 DEF Goto
    <3> QED BY <2>1, <3>1, <3>3 DEF HeadInv
  <2>5. CASE SetQueue
    BY <2>1, <2>5 DEF SetQueue, At, Running
  <2>6. CASE WalkNull \/ Acquire \/ Tick
    <3>1. UNCHANGED <<queue, drive, flags>> /\ fault' # "none"
      <4>1. CASE Acquire
        BY <2>2, <4>1 DEF Acquire, bufs
      <4>2. CASE Tick
        <5>1. ncli # 0
          BY <2>2, Types DEF CountTypes
        <5>2. fault' = "goto_scheduler"
          BY <4>2, <5>1 DEF Tick
        <5> QED BY <4>2, <5>2 DEF Tick, bufs
      <4>3. CASE WalkNull
        BY <4>3 DEF WalkNull, bufs
      <4> QED BY <2>6, <4>1, <4>2, <4>3
    <3> QED BY <2>1, <3>1 DEF HeadInv
  <2>7. CASE Drive
    <3>1. UNCHANGED <<queue, flags, at, cur, fault>>
      BY <2>7 DEF Drive, Sector, SectorFails, bufs, locals, cpu
    <3>2. drive'.for = drive.for /\ drive'.cmd = drive.cmd
      BY <2>7, Types DEF Drive, Sector, SectorFails, DriveTypes
    <3> QED BY <2>1, <3>1, <3>2 DEF HeadInv
  <2>8. CASE IdeHandler
    BY <2>8, HandlerAnswers DEF HeadInv, Unanswered
  <2>9. CASE IdeHandlerNoBuf
    BY <2>1, <2>9 DEF IdeHandlerNoBuf
  <2>10. CASE UNCHANGED vars
    BY <2>1, <2>10 DEF vars, bufs, cpu, locals, HeadInv
  <2> QED BY <1>3, <2>3, <2>4, <2>5, <2>6, <2>7, <2>8, <2>9, <2>10
          DEF Next, Step, Handle
<1>4. ASSUME drive.taken, ~Command
      PROVE  drive'.taken
  BY <1>4, HandlerDrive, Types
     DEF Next, Call, BufRead, BufWrite, Enter, Step, Look, SetQueue, Head, Walk, Hop,
         WalkNull, LinkNext,
         LinkPrev, Count, Acquire, Drive, Sector, SectorFails, Handle, IdeHandlerNoBuf,
         Tick, vars, DriveTypes
<1> QED BY <1>2, <1>3, <1>4 DEF HeadInv

LEMMA AnswerInvKept ==
  ASSUME DiskInv, [Next]_vars
  PROVE  AnswerInv'
<1> USE DEF DiskInv
<1>1. /\ drive \in DriveTypes /\ made \in Nat /\ made <= NBUF
      /\ flags \in [Bufs -> SUBSET {"B_VALID", "B_DIRTY"}]
      /\ data \in [Bufs -> [1..SECTORS -> Contents]]
      /\ queue \in Bufs \cup {NULL}
  BY Types, Sizes DEF CountTypes, DataTypes, LinkTypes
<1>2. drive.cmd # "none" => drive.for \in 1..made /\ drive.for \in Bufs
  BY <1>1, Sizes DEF DriveInv, Bufs
<1>3. CASE Call
  BY <1>2, <1>3, CallKeeps DEF AnswerInv
<1>4. CASE Command
  BY <1>4, CommandAsks DEF AnswerInv
<1>5. CASE Drive
  <2>1. UNCHANGED <<flags, data>>
    BY <1>5 DEF Drive, Sector, SectorFails
  <2>2. /\ drive'.for = drive.for /\ drive'.cmd = drive.cmd /\ drive'.taken = drive.taken
        /\ drive'.failed = drive.failed \/ drive'.failed
    BY <1>1, <1>5 DEF Drive, Sector, SectorFails, DriveTypes
  <2> QED BY <2>1, <2>2 DEF AnswerInv
<1>6. CASE IdeHandler
  <2>1. /\ drive'.for = drive.for /\ drive'.cmd = drive.cmd
        /\ drive'.failed = drive.failed /\ queue # NULL /\ irr
    BY <1>1, <1>6, HandlerDrive DEF DriveTypes, IdeHandler
  <2> SUFFICES ASSUME drive.cmd = "read", ~drive.failed
               PROVE  /\ flags'[drive.for] = {"B_DIRTY"}
                      /\ data'[drive.for][1] = <<"read", drive.for, 1>>
    BY <2>1 DEF AnswerInv
  <2>2. CASE drive.taken
    <3>1. flags[drive.for] = {"B_DIRTY"} /\ data[drive.for][1] = <<"read", drive.for, 1>>
      BY <2>2 DEF AnswerInv
    <3>2. CASE queue = drive.for
      <4>1. ~Fetches(queue)
        BY <3>1, <3>2 DEF Fetches
      <4> QED BY <1>6, <3>1, <4>1, HandlerData
    <3>3. CASE queue # drive.for
      BY <1>1, <1>2, <1>6, <3>1, <3>3, HandlerData
    <3> QED BY <3>2, <3>3
  <2>3. CASE ~drive.taken
    <3>1. queue = drive.for /\ flags[queue] = {"B_VALID"}
      BY <2>3 DEF HeadInv
    <3>2. drive.ready /\ drive.left = SECTORS /\ ~drive.fault
      BY <2>1, <2>3, Sizes DEF DriveInv
    <3>3. Fetches(queue)
      BY <3>1, <3>2 DEF Fetches
    <3>4. PICK d \in [1..SECTORS -> Contents] :
            /\ data' = [data EXCEPT ![queue] = d]
            /\ d[1] = <<"read", drive.for, SECTORS - drive.left + 1>>
            /\ flags' = [flags EXCEPT ![queue] = {"B_DIRTY"}]
      BY <1>6, <3>2, <3>3, HandlerData
    <3>5. SECTORS - drive.left + 1 = 1
      BY <3>2, Sizes
    <3> QED BY <1>1, <1>2, <3>1, <3>4, <3>5
  <2> QED BY <2>2, <2>3
<1>7. CASE Look \/ SetQueue \/ Head \/ Walk \/ Hop \/ WalkNull \/ LinkNext
        \/ LinkPrev \/ Count \/ Acquire
           \/ IdeHandlerNoBuf \/ Tick \/ UNCHANGED vars
  <2>1. UNCHANGED <<flags, data, drive>>
    BY <1>7 DEF Look, SetQueue, Head, Walk, Hop, WalkNull, LinkNext, LinkPrev, Count,
                Acquire,
                IdeHandlerNoBuf, Tick, vars
  <2> QED BY <2>1 DEF AnswerInv
<1> QED BY <1>3, <1>4, <1>5, <1>6, <1>7 DEF Next, Step, Handle

-----------------------------------------------------------------------------
LEMMA NextSound == DiskInv /\ [Next]_vars => DiskInv'
BY TypesKept, CallInvKept, BufInvKept, LockInvKept, DriveInvKept, LinksKept, HeadInvKept,
   AnswerInvKept DEF DiskInv

\* The drive, the lock, the links and the buffers keep together in every execution.
THEOREM DiskInvariance ==
  ASSUME LinksUnset
  PROVE  Spec => []DiskInv
<1>1. Init => DiskInv
  BY InitSound
<1> QED BY <1>1, NextSound, PTL DEF Spec

\* However the first calls of buf_read() and buf_write() preempt each other, one
\* request gets to the drive: whatever stops the kernel comes after it.
THEOREM FirstGetsThroughHolds ==
  ASSUME LinksUnset
  PROVE  Spec => []FirstGetsThrough
<1>1. DiskInv => FirstGetsThrough
  BY DEF DiskInv, LockInv, FirstGetsThrough
<1> QED BY <1>1, DiskInvariance, PTL

\* Whoever is preempted where in buf_read() and buf_write(), and whatever is queued
\* meanwhile, the drive's first answer finds the buffer that was asked for at the head.
THEOREM HeadIsAsked ==
  ASSUME LinksUnset
  PROVE  Spec => []HeadAsked
<1>1. DiskInv => HeadAsked
  BY DEF DiskInv, HeadInv, HeadAsked
<1> QED BY <1>1, DiskInvariance, PTL

\* A read that does not fail leaves the first sector of the buffer's own block in it
\* for good, for every size of a block.
THEOREM AnswerIsItsOwn ==
  ASSUME LinksUnset
  PROVE  Spec => []AnswerIsOwn
<1>1. DiskInv => AnswerIsOwn
  BY DEF DiskInv, AnswerInv, AnswerIsOwn
<1> QED BY <1>1, DiskInvariance, PTL

-----------------------------------------------------------------------------
(* Every answer is owed.                                                   *)

\* The first answer goes to a buffer that is owed one, and so will the second.
LEMMA FirstAnswer ==
  ASSUME DiskInv, OwedInv, SECTORS <= 2, IdeHandler, Unanswered
  PROVE  OwedInv'
<1> USE DEF DiskInv
<1>1. /\ drive \in DriveTypes /\ made \in Nat /\ owed \in [Bufs -> Int]
      /\ queue \in Bufs /\ next \in [Bufs -> Bufs \cup {NULL}]
      /\ cur \in Procs /\ buf \in [Procs -> Bufs \cup {NULL}]
  BY Types, Sizes DEF CountTypes, LinkTypes, PlaceTypes, IdeHandler
<1>2. owed[queue] = 1 /\ prev[queue] = NULL /\ queue # NULL /\ queue <= made
  BY <1>1, Sizes DEF LinksInv, HeadFirst, MadeLinked
<1>3. /\ owed' = [owed EXCEPT ![queue] = owed[queue] - 1] /\ queue' = next[queue]
      /\ UNCHANGED <<at, buf, cur, fault>>
  BY <1>2 DEF IdeHandler, BufRemove, locals, cpu
<1>4. \A b \in Bufs : owed'[b] >= 0
  BY <1>1, <1>2, <1>3 DEF OwedInv
<1>5. ~(irr' /\ Busy')
  <2>1. CASE Fetches(queue) /\ drive.ready
    <3>1. PICK n \in 1..drive.left :
            /\ drive' = [drive EXCEPT !.left = drive.left - n,
                                      !.ready = FALSE, !.taken = TRUE]
            /\ irr' = (n > 1)
      BY <2>1, HandlerDrive
    <3>2. drive.left \in 0..2
      BY <1>1, Sizes DEF DriveTypes
    <3>3. drive'.left = drive.left - n
      BY <1>1, <3>1 DEF DriveTypes
    <3>4. n > 1 => ~(drive'.left > 0)
      BY <3>1, <3>2, <3>3
    <3> QED BY <3>1, <3>4 DEF Busy
  <2>2. CASE ~(Fetches(queue) /\ drive.ready)
    BY <2>2, HandlerDrive
  <2> QED BY <2>1, <2>2
<1>6. queue' # NULL => owed'[queue'] > 0
  <2>1. queue' # NULL => queue' \in Bufs /\ queue' <= made /\ queue' # queue
    BY <1>1, <1>3 DEF LinksInv, MadeLinked
  <2>2. queue' # NULL => owed[queue'] = 1
    BY <2>1 DEF LinksInv, MadeLinked
  <2> QED BY <1>1, <1>3, <2>1, <2>2
<1>7. at'[cur'] \in {"look", "first"} => owed'[mine'] > 0
  <2> SUFFICES ASSUME at[cur] \in {"look", "first"} PROVE owed'[mine] > 0
    BY <1>3 DEF mine
  <2>1. mine \in Bufs /\ mine <= made /\ mine # queue
    BY <1>1 DEF mine, CallInv, LinksInv, MadeHeld, NotYetLinked, Unlinked
  <2>2. owed[mine] = 1
    BY <2>1 DEF LinksInv, MadeLinked
  <2> QED BY <1>1, <1>3, <2>1, <2>2
<1> QED BY <1>4, <1>5, <1>6, <1>7 DEF OwedInv

\* After the second answer the drive is silent.
LEMMA SecondAnswer ==
  ASSUME DiskInv, OwedInv, SECTORS <= 2, IdeHandler, ~Unanswered
  PROVE  OwedInv'
<1> USE DEF DiskInv
<1>1. drive \in DriveTypes /\ owed \in [Bufs -> Int] /\ queue \in Bufs /\ queue # NULL
  BY Types, Sizes DEF CountTypes, LinkTypes, IdeHandler
<1>2. irr /\ fault = "none" /\ drive.taken /\ drive.cmd # "none"
  BY DEF IdeHandler, Running, Unanswered
<1>3. ~Busy /\ owed[queue] > 0
  BY <1>1, <1>2 DEF OwedInv
<1>4. \A b \in Bufs : owed'[b] >= 0
  <2>1. owed' = [owed EXCEPT ![queue] = owed[queue] - 1]
    BY DEF IdeHandler
  <2> QED BY <1>1, <1>3, <2>1 DEF OwedInv
<1>5. ~irr' /\ ~Busy'
  <2>1. CASE Fetches(queue) /\ drive.ready
    <3>1. PICK n \in 1..drive.left :
            /\ drive' = [drive EXCEPT !.left = drive.left - n,
                                      !.ready = FALSE, !.taken = TRUE]
            /\ irr' = (n > 1)
      BY <2>1, HandlerDrive
    <3>2. drive.left \in 0..1
      BY <1>1, <1>2, Sizes DEF DriveTypes, DriveInv
    <3>3. drive'.left = drive.left - n
      BY <1>1, <3>1 DEF DriveTypes
    <3>4. ~(n > 1) /\ ~(drive'.left > 0)
      BY <3>1, <3>2, <3>3
    <3> QED BY <3>1, <3>4 DEF Busy
  <2>2. CASE ~(Fetches(queue) /\ drive.ready)
    <3>1. drive' = [drive EXCEPT !.taken = TRUE] /\ irr' = FALSE
      BY <2>2, HandlerDrive
    <3>2. drive'.left = drive.left /\ drive'.ready = drive.ready
      BY <1>1, <3>1 DEF DriveTypes
    <3> QED BY <1>3, <3>1, <3>2 DEF Busy
  <2> QED BY <2>1, <2>2
<1> QED BY <1>4, <1>5 DEF OwedInv

LEMMA OwedInvKept ==
  ASSUME DiskInv, OwedInv, SECTORS <= 2, [Next]_vars
  PROVE  OwedInv'
<1> USE DEF DiskInv
<1>1. /\ drive \in DriveTypes /\ owed \in [Bufs -> Int] /\ made \in Nat
      /\ cur \in Procs /\ at \in [Procs -> Places]
      /\ buf \in [Procs -> Bufs \cup {NULL}] /\ queue \in Bufs \cup {NULL}
  BY Types, Sizes DEF CountTypes, LinkTypes, PlaceTypes
<1>2. CASE Call
  <2>1. PICK b \in Bufs : Enter(b)
    BY <1>2, CallBuffer
  <2>2. /\ owed' = [owed EXCEPT ![b] = owed[b] + 1] /\ buf' = [buf EXCEPT ![cur] = b]
        /\ UNCHANGED <<queue, drive, irr, fault, cur>>
    BY <2>1 DEF Enter, bufs, cpu
  <2>3. \A c \in Bufs : owed'[c] >= owed[c]
    BY <1>1, <2>2
  <2>4. mine' = b /\ owed'[b] > 0 /\ \A c \in Bufs : owed'[c] >= 0
    BY <1>1, <2>2, <2>3 DEF OwedInv, mine
  <2>5. queue # NULL /\ owed[queue] > 0 => owed'[queue] > 0
    BY <1>1, <2>2, <2>3
  <2> QED BY <2>2, <2>4, <2>5 DEF OwedInv, Unanswered, Busy
<1>3. CASE Look \/ SetQueue \/ Head \/ Walk \/ Hop \/ WalkNull \/ LinkNext
        \/ LinkPrev \/ Count \/ Acquire
  <2>1. /\ UNCHANGED <<drive, irr, cur, buf, owed>>
        /\ fault = "none"
        /\ queue' = queue \/ (queue' = mine /\ at[cur] = "first")
    BY <1>3 DEF Look, SetQueue, Head, Walk, Hop, WalkNull, LinkNext, LinkPrev, Count,
                Acquire, At, Running, bufs, cpu, locals
  <2>2. at'[cur] \in {"look", "first"} => at[cur] \in {"look", "first"}
    <3>1. \/ at' = at
          \/ at[cur] = "look" /\ at' = [at EXCEPT ![cur] = "first"]
          \/ \E w \in Places \ {"look", "first"} : at' = [at EXCEPT ![cur] = w]
      <4>1. CASE WalkNull
        BY <4>1 DEF WalkNull, locals
      <4>2. CASE ~WalkNull
        BY <1>3, <4>2 DEF Look, SetQueue, Head, Walk, Hop, LinkNext, LinkPrev, Count,
                          Acquire, At, Goto, Places
      <4> QED BY <4>1, <4>2
    <3> QED BY <1>1, <3>1
  <2> QED BY <2>1, <2>2 DEF OwedInv, Unanswered, Busy, mine
<1>4. CASE Command
  <2>1. Unanswered' /\ owed' = owed
    BY <1>4, CommandAsks DEF NoCommand, Unanswered, Command
  <2> QED BY <2>1 DEF OwedInv
<1>5. CASE Drive
  <2>1. /\ UNCHANGED <<queue, owed, at, buf, cur, fault>> /\ Busy
    BY <1>5 DEF Drive, Sector, SectorFails, bufs, locals, cpu
  <2>2. ASSUME ~Unanswered'
        PROVE  ~Unanswered
    <3>1. drive'.cmd = drive.cmd /\ drive'.taken = drive.taken
      BY <1>1, <1>5 DEF Drive, Sector, SectorFails, DriveTypes
    <3> QED BY <2>2, <3>1 DEF Unanswered
  <2>3. ASSUME ~Unanswered
        PROVE  ~Busy'
    <3>1. drive.left \in 0..1
      BY <1>1, <2>3, Sizes DEF DriveTypes, DriveInv, Unanswered
    <3>2. CASE Sector
      <4>1. \/ drive' = [drive EXCEPT !.ready = TRUE]
            \/ drive' = [drive EXCEPT !.left = drive.left - 1]
        BY <3>2 DEF Sector
      <4>2. drive'.ready \/ ~(drive'.left > 0)
        BY <1>1, <3>1, <4>1 DEF DriveTypes
      <4> QED BY <4>2 DEF Busy
    <3>3. CASE SectorFails
      <4>1. ~(drive'.left > 0)
        BY <1>1, <3>3 DEF SectorFails, DriveTypes
      <4> QED BY <4>1 DEF Busy
    <3> QED BY <1>5, <3>2, <3>3 DEF Drive
  <2> QED BY <2>1, <2>2, <2>3 DEF OwedInv, mine
<1>6. CASE IdeHandler
  BY <1>6, FirstAnswer, SecondAnswer
<1>7. CASE Tick \/ IdeHandlerNoBuf
  <2>1. UNCHANGED <<queue, owed, drive>>
    BY <1>7 DEF Tick, IdeHandlerNoBuf, bufs
  <2>2. ASSUME ~Unanswered'
        PROVE  fault' # "none"
    <3>1. CASE Tick
      <4>1. ncli > 0
        BY <2>1, <2>2, OneRuns DEF Unanswered
      <4>2. ncli # 0
        BY <4>1, Types DEF CountTypes
      <4> QED BY <3>1, <4>2 DEF Tick
    <3>2. CASE IdeHandlerNoBuf
      BY <3>2 DEF IdeHandlerNoBuf
    <3> QED BY <1>7, <3>1, <3>2
  <2>3. ~Unanswered' => ~(irr' /\ Busy')
    <3>1. irr' = irr \/ irr' = FALSE
      BY <1>7 DEF Tick, IdeHandlerNoBuf
    <3> QED BY <2>1, <3>1 DEF OwedInv, Unanswered, Busy
  <2> QED BY <2>1, <2>2, <2>3 DEF OwedInv
<1>8. CASE UNCHANGED vars
  BY <1>8 DEF vars, bufs, cpu, locals, OwedInv, Unanswered, Busy, mine
<1> QED BY <1>2, <1>3, <1>4, <1>5, <1>6, <1>7, <1>8 DEF Next, Step, Handle

\* With the two sectors of a block of fs.h no buffer is taken as answered more often
\* than it was queued.  With three it is: a head that was the second of the queue
\* stays there when it is removed.
THEOREM AnsweredOnceHolds ==
  ASSUME SECTORS <= 2, LinksUnset
  PROVE  Spec => []AnsweredOnce
<1>1. Init => DiskInv /\ OwedInv
  BY InitSound
<1>2. DiskInv /\ OwedInv /\ [Next]_vars => DiskInv' /\ OwedInv'
  BY NextSound, OwedInvKept
<1>3. OwedInv => AnsweredOnce
  BY DEF OwedInv, AnsweredOnce
<1> QED BY <1>1, <1>2, <1>3, PTL DEF Spec
=============================================================================
