------------------------------ MODULE Syscall ------------------------------
(***************************************************************************)
(* kernel/syscall.c and sysapi.c: a process traps with a number in eax and *)
(* its arguments above esp, and the kernel fetches them from the memory of *)
(* the process, the mem of Strings, which proc->size says the length of.   *)
(* The one system call, print(), hands a string of the process to          *)
(* kprintf() as the format; its arguments are what lies on the kernel's    *)
(* stack.  Addresses have two characters here, and wrap.                   *)
(***************************************************************************)
EXTENDS Format

CONSTANTS Numbers           \* numbers of system calls tried

INT == 2                    \* sizeof(int)
SPACE == CHAR * CHAR        \* 2^32

\* proc->size is PGSIZE.
ASSUME SyscallAssumption == 2 * MEM <= SPACE /\ MEM + INT <= SPACE
                            /\ Numbers \subseteq Int

SYS_PRINT == 22

VARIABLES sys,              \* how far the system call has got
          eax, esp,         \* of the process's trap frame
          touched           \* history: addresses of the process the kernel has read

syscallVars == <<sys, eax, esp, touched>>

Plus(a, b) == IF a + b >= SPACE THEN a + b - SPACE ELSE a + b

Failed == [ok |-> FALSE, value |-> 0, read |-> {}]

FetchInt(addr) ==
  IF addr >= MEM \/ Plus(addr, INT) > MEM THEN Failed
  ELSE [ok |-> TRUE, value |-> mem[addr] + CHAR * mem[addr + 1],
        read |-> addr .. addr + INT - 1]

\* Mutant: the loop goes on at the end of the memory.
FetchStrOpen(addr) ==
  IF addr >= MEM THEN Failed
  ELSE [ok |-> IsString(mem, addr), value |-> addr,
        read |-> {a \in 0..MEM : a >= addr /\ \A b \in addr .. a-1 : mem[b] # 0}]

\* The value is the address of the string; its characters are read up to the first 0.
FetchStr(addr) ==
  IF addr >= MEM THEN Failed
  ELSE [ok |-> IsString(mem, addr), value |-> addr,
        read |-> {a \in Addr : a >= addr /\ \A b \in addr .. a-1 : mem[b] # 0}]

ArgInt(n) == FetchInt(Plus(esp, n * INT + INT))

\* Mutant: only the end of the area is compared with the size.
ArgPtrEnd(n, size) ==
  LET arg == ArgInt(n)
  IN  IF ~arg.ok \/ size < 0 \/ Plus(arg.value, size) > MEM
      THEN [arg EXCEPT !.ok = FALSE] ELSE arg

ArgPtr(n, size) ==
  LET arg == ArgInt(n)
  IN  IF ~arg.ok \/ size < 0 \/ arg.value >= MEM \/ Plus(arg.value, size) > MEM
      THEN [arg EXCEPT !.ok = FALSE] ELSE arg

ArgStr(n) ==
  LET arg == ArgInt(n)
      str == FetchStr(arg.value)
  IN  IF ~arg.ok THEN arg ELSE [str EXCEPT !.read = @ \cup arg.read]

-----------------------------------------------------------------------------
\* No such call: the number is not positive, or its place in the table is empty.
Unknown ==
  /\ sys = "entered"
  /\ eax < SYS_PRINT
  /\ eax' = -1 /\ sys' = "left"
  /\ UNCHANGED <<esp, touched, formatVars>>

\* Behind the table lies whatever the kernel's data is: 0, or an address to call.
Beyond ==
  /\ sys = "entered"
  /\ eax > SYS_PRINT
  /\ \/ eax' = -1 /\ sys' = "left"
     \/ eax' = eax /\ sys' = "astray"
  /\ UNCHANGED <<esp, touched, formatVars>>

PrintFails ==
  /\ sys = "entered" /\ eax = SYS_PRINT
  /\ ~ArgStr(0).ok
  /\ touched' = touched \cup ArgStr(0).read
  /\ eax' = -1 /\ sys' = "left"
  /\ UNCHANGED <<esp, formatVars>>

\* The string becomes the format of kprintf(), which reads it once more.
PrintMessage ==
  /\ sys = "entered" /\ eax = SYS_PRINT
  /\ ArgStr(0).ok
  /\ LET s == ArgStr(0).value
     IN  /\ touched' = touched \cup ArgStr(0).read \cup s .. s + StrLen(mem, s)
         /\ fmt' = [i \in 1 .. StrLen(mem, s) |-> Glyph[mem[s + i - 1]]]
  /\ pos' = 1 /\ stage' = "text" /\ out' = << >>
  /\ sys' = "printing"
  /\ UNCHANGED <<eax, esp, flags, field_width, precision, qualifier, last>>

\* kprintf() has returned the number of characters.
Printed ==
  /\ sys = "printing" /\ stage = "returned"
  /\ eax' = Len(out) /\ sys' = "left"
  /\ UNCHANGED <<esp, touched, formatVars>>

SyscallNext == Unknown \/ Beyond \/ PrintFails \/ PrintMessage \/ Printed

SyscallInit ==
  /\ sys = "entered" /\ touched = {}
  /\ eax \in Numbers /\ esp \in 0 .. SPACE - 1

\* No system call is made.
NoSyscall == sys = "none" /\ touched = {} /\ eax = 0 /\ esp = 0

-----------------------------------------------------------------------------
\* Whatever the process has in esp and in its memory, fetching the argument and the
\* string it points to, and reading that string again as a format, reads nothing
\* but the process's own memory: a string without end is refused before it is used.
Inside == touched \subseteq Addr

\* An area that argptr() accepts lies in the process's memory whole, for every
\* argument, size and esp, though esp + n*4 + 4 and addr + size wrap.
PtrInside ==
  \A n \in 0..2, size \in -1 .. SPACE \div 2 - 1 :
    LET r == ArgPtr(n, size)
    IN  r.ok => r.read \cup r.value .. r.value + size - 1 \subseteq Addr

\* syscall.c:119 calls what stands in the table.
StaysInTable == sys # "astray"
=============================================================================
