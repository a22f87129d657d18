---------------------------- MODULE MCTrapTables ----------------------------
(***************************************************************************)
(* Every way into the kernel with every kind of way back: a process enters *)
(* and, when it runs again, leaves by the path that another process came   *)
(* in on.  The TSS is anywhere.  Then every function of the C library that *)
(* makes a call, answered or put to wait; and sbrk by any increment that   *)
(* does not go below 0.                                                    *)
(***************************************************************************)
EXTENDS SystemCalls, Questions

Entrances == ((0 .. 255) \ NeverRaised) \cup {SYSCALL}
Traps == [entered : Entrances, left : {3, 14, 32, SYSCALL},
          tss : {<<65440, 255, 65535, 65535>>, <<0, 4660, 1, 0>>}]

(* The program's registers, each with a value of its own. *)
Special == [rip |-> 1100, rflags |-> 1101, rsp |-> 1102,
            cs |-> Selector(GDT_RING3_CODE_SEGMENT, 3), ss |-> Selector(GDT_RING3_DATA_SEGMENT, 3)]
UserRegs == [r \in Gprs |-> 1000 + (CHOOSE i \in DOMAIN Pushed : Pushed[i] = r)] @@ Special
KernelRegs == [r \in DOMAIN UserRegs |-> 0]

Trap(t) ==
    LET info == Enter(t.entered, UserRegs)
    IN [entrance |-> Entrance(t.entered), info |-> info, gdt |-> init_gdt(t.tss),
        regs |-> Leave(t.left, info, KernelRegs)]

TrapAnswer == Answer("trap", Trap(input))

LibcCalls == [function : {f \in DOMAIN Libc : Libc[f] # ENOSYS}, waits : BOOLEAN,
              left : {32, SYSCALL}]
ARGUMENTS == <<2001, 2002, 2003>>
RESULT == 2004

LibcCall(c) ==
    LET regs == syscall(UserRegs, Libc[c.function], ARGUMENTS)
        info == Enter(SYSCALL, regs)
        done == syscall_kernel_handler(info, RESULT, c.waits)
    IN [called |-> regs, info |-> info, done |-> done, regs |-> Leave(c.left, done.info, KernelRegs)]

Breaks == {b \in [brk : 1 .. 5, incr : -5 .. 5, free : 0 .. 2] : b.brk + b.incr >= 0}

LibcAnswer == \/ Answer("libc", LibcCall(input))
              \/ Answer("sbrk", sbrk(input.brk, input.incr, input.free))

-----------------------------------------------------------------------------
(* A function of the library gets to the kernel's handler of its name, with *)
(* its arguments in order, and comes back with the answer and all registers *)
(* that the compiler counts on; one that has to wait makes the same call    *)
(* again when the process runs.  sbrk moves the break by what it was asked  *)
(* for and returns the old one, or fails and moves nothing.                 *)
LibcAgrees ==
    /\ Answered("libc") =>
         /\ output.done.handler = input.function /\ output.done.args = ARGUMENTS
         /\ \A r \in DOMAIN UserRegs \ {"rax", "rcx", "r11", "rip"} : output.regs[r] = output.called[r]
         /\ IF input.waits THEN Enter(SYSCALL, [output.regs EXCEPT !.rip = @ + 2]) = output.info
            ELSE output.regs.rax = RESULT /\ output.regs.rip = UserRegs.rip
    /\ Answered("sbrk") =>
         IF output.ret = -1 THEN output.brk = input.brk
         ELSE output.ret = input.brk /\ output.brk = input.brk + input.incr

(* The GDT, the IDT, STAR and the stubs are written down in five places     *)
(* that must agree.  A trap enters ring 0 code with interrupts off at its   *)
(* own stub; every field of struct interrupt_info holds what it is named    *)
(* for, with and without an error code; and whichever path the process      *)
(* leaves by, it gets its registers and the ring 3 segments back, but for   *)
(* rcx and r11 on a path with a syscall.  The library's calls go this way.  *)
TrapsRoundTrip == LibcAgrees /\ (Answered("trap") =>
    LET e       == output.entrance
        info    == output.info
        tss     == output.gdt[GDT_TSS_SEGMENT]
        segment(selector) == Descriptor(output.gdt[selector \div 8])
        called  == input.entered = SYSCALL
        lost    == IF SYSCALL \in {input.entered, input.left} THEN {"rcx", "r11"} ELSE {}
    IN /\ \A i \in DOMAIN output.gdt : Descriptor(output.gdt[i]).present
       /\ segment(e.cs).code /\ segment(e.cs).long
       /\ e.cs = gdt_reload_segments.cs /\ gdt_is_segment_ring0(e.cs)
       /\ segment(e.cs).dpl = 0 /\ "IF" \in e.clears
       /\ called => e.ss = gdt_reload_segments.ss
       /\ ~ called => e.handler = Stub(input.entered)
       /\ info.interrupt_index = input.entered
       /\ info.potential_error_code = IF input.entered \in CpuPushesError THEN ERROR_CODE ELSE 0
       /\ \A r \in Gprs \ lost : info[r] = UserRegs[r] /\ output.regs[r] = UserRegs[r]
       /\ \A r \in DOMAIN Special : output.regs[r] = UserRegs[r]
       /\ info.rip = UserRegs.rip /\ info.original_rsp = UserRegs.rsp
       /\ ~ gdt_is_segment_ring0(info.code_segment)
       /\ segment(output.regs.cs).dpl = 3
       /\ segment(output.regs.cs).code /\ segment(output.regs.cs).long
       /\ segment(output.regs.ss).dpl = 3 /\ ~ segment(output.regs.ss).code
       /\ Descriptor(tss).system /\ Descriptor(tss).type = 9        \* an available 64-bit TSS
       /\ <<tss.base_low, tss.base_high * 256 + tss.base_mid>> \o tss.base_top32 = input.tss
       /\ tss.limit_high * 65536 + tss.limit_low + 1 = TSS_SIZE)

=============================================================================
