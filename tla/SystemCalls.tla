----------------------------- MODULE SystemCalls -----------------------------
(***************************************************************************)
(* A system call from both sides: the functions of the programs' C library *)
(* (buildenv/newlib_libc/syscalls.c) and the kernel's dispatch             *)
(* (kernel/syscall/syscall_entry.c), with the frames of TrapTables between *)
(* them.  The break is counted in bytes, PAGE of them to a page.           *)
(***************************************************************************)
EXTENDS TrapTables

ENOSYS == -1           \* a function that fails without a call

(* The library's numbers; its exit is _exit. *)
Stubs == [exit |-> 60, read |-> 0, write |-> 1, open |-> 2, close |-> 3, execve |-> 59, fork |-> 57,
          getpid |-> 39, wait |-> 61, kill |-> 62]
MoreStubs == [fstat |-> ENOSYS, isatty |-> ENOSYS, link |-> ENOSYS, lseek |-> 8, stat |-> ENOSYS,
              times |-> ENOSYS, unlink |-> ENOSYS, gettimeofday |-> ENOSYS]
Libc == Stubs @@ MoreStubs @@ [brk |-> 12]       \* brk is called by sbrk alone

syscall(regs, num, args) ==
    [regs EXCEPT !.rax = num, !.rdi = args[1], !.rsi = args[2], !.rdx = args[3]]

(* The handlers by the kernel's numbers; they take rdi, rsi and rdx. *)
Handlers ==
    (0 :> "read") @@ (1 :> "write") @@ (2 :> "open") @@ (3 :> "close") @@ (8 :> "lseek")
    @@ (12 :> "brk") @@ (32 :> "dup") @@ (33 :> "dup2") @@ (39 :> "getpid") @@ (57 :> "fork")
    @@ (59 :> "execve") @@ (60 :> "exit") @@ (61 :> "wait") @@ (62 :> "kill")
    @@ (96 :> "gettimeofday") @@ (110 :> "getppid")

(* A handler answers in rax, or leaves the process waiting; then the frame  *)
(* is that of the call again, in front of its two bytes of instruction.     *)
syscall_kernel_handler(info, result, waits) ==
    [handler |-> IF info.rax \in DOMAIN Handlers THEN Handlers[info.rax] ELSE "panic",
     args    |-> <<info.rdi, info.rsi, info.rdx>>,
     info    |-> IF waits THEN [info EXCEPT !.rip = @ - 2] ELSE [info EXCEPT !.rax = result]]

-----------------------------------------------------------------------------
(* The break of a process, with so many free frames. *)
PAGE == 2
AlignUp(x) == (x + PAGE - 1) \div PAGE

syscall_brk_handler(brk, new, free) ==
    IF new = 0 \/ new < brk \/ AlignUp(new) - AlignUp(brk) > free THEN [rax |-> brk, brk |-> brk]
    ELSE [rax |-> new, brk |-> new]

sbrk(brk, incr, free) ==
    LET current == syscall_brk_handler(brk, 0, free).rax
        moved   == syscall_brk_handler(brk, current + incr, free)
    IN IF incr = 0 THEN [ret |-> current, brk |-> brk]
       ELSE [ret |-> IF moved.rax # current + incr THEN -1 ELSE current, brk |-> moved.brk]

=============================================================================
