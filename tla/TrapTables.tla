----------------------------- MODULE TrapTables -----------------------------
(***************************************************************************)
(* What the CPU goes by when it enters and leaves the kernel: the GDT with *)
(* its TSS (kernel/gdt), the IDT (kernel/interrupts), the registers of the *)
(* SYSCALL instruction (kernel/syscall/syscall_entry.c), and the frames    *)
(* that the assembly stubs build on the kernel's stack.                    *)
(*                                                                         *)
(* An address is its four 16-bit words, low word first.  A stack is a      *)
(* sequence, top first.                                                    *)
(***************************************************************************)
EXTENDS Integers, Sequences, FiniteSetsExt, TLC

-----------------------------------------------------------------------------
(* The GDT. *)

GDT_RING0_CODE_SEGMENT == 1
GDT_RING0_DATA_SEGMENT == 2
GDT_RING3_DATA_SEGMENT == 3
GDT_RING3_CODE_SEGMENT == 4
GDT_TSS_SEGMENT == 5

gdt_get_segment_index(segment) ==
    CASE segment = "ring0 code" -> GDT_RING0_CODE_SEGMENT
      [] segment = "ring0 data" -> GDT_RING0_DATA_SEGMENT
      [] segment = "ring3 code" -> GDT_RING3_CODE_SEGMENT
      [] segment = "ring3 data" -> GDT_RING3_DATA_SEGMENT

(* The bit fields of struct gdt_entry, lowest first, packed into bytes. *)
gdt_entry(access, flags, limit, base) ==
    [access |-> access.access + 2 * access.read_write + 4 * access.direction_conforming
                + 8 * access.executable + 16 * access.descriptor_type
                + 32 * access.descriptor_privilege_level + 128 * access.present,
     flags  |-> 2 * flags.long_mode + 4 * flags.size_flag + 8 * flags.granularity,
     limit_low |-> limit % 65536, limit_high |-> limit \div 65536,
     base_low |-> base[1], base_mid |-> base[2] % 256, base_high |-> base[2] \div 256]

setup_gdt_entry(is_code_segment, is_ring3) ==
    LET code == IF is_code_segment THEN 1 ELSE 0
    IN gdt_entry([access |-> 0, read_write |-> 1, direction_conforming |-> 0, executable |-> code,
                  descriptor_type |-> 1, present |-> 1,
                  descriptor_privilege_level |-> IF is_ring3 THEN 3 ELSE 0],
                 [long_mode |-> code, size_flag |-> 1 - code, granularity |-> 1],
                 1048575, <<0, 0>>)

TSS_SIZE == 104        \* sizeof(struct tss_entry)

(* The base in four pieces, the last one in the next slot. *)
setup_tss_gdt_entry(tss) ==
    gdt_entry([access |-> 1, read_write |-> 0, direction_conforming |-> 0, executable |-> 1,
               descriptor_type |-> 0, present |-> 1, descriptor_privilege_level |-> 0],
              [long_mode |-> 0, size_flag |-> 0, granularity |-> 0],
              TSS_SIZE - 1, tss)
    @@ [base_top32 |-> <<tss[3], tss[4]>>]

init_gdt(tss) ==
    [i \in 1 .. GDT_TSS_SEGMENT |->
        CASE i = GDT_RING0_CODE_SEGMENT -> setup_gdt_entry(TRUE, FALSE)
          [] i = GDT_RING0_DATA_SEGMENT -> setup_gdt_entry(FALSE, FALSE)
          [] i = GDT_RING3_DATA_SEGMENT -> setup_gdt_entry(FALSE, TRUE)
          [] i = GDT_RING3_CODE_SEGMENT -> setup_gdt_entry(TRUE, TRUE)
          [] i = GDT_TSS_SEGMENT        -> setup_tss_gdt_entry(tss)]

(* What a CPU makes of the bytes. *)
Descriptor(entry) ==
    LET bit(byte, n) == (byte \div 2^n) % 2 = 1
    IN [present |-> bit(entry.access, 7), dpl |-> (entry.access \div 32) % 4,
        system  |-> ~ bit(entry.access, 4), type |-> entry.access % 16,
        code    |-> bit(entry.access, 4) /\ bit(entry.access, 3),
        long    |-> bit(entry.flags, 1) /\ ~ bit(entry.flags, 2)]

(* union gdt_segment_selector, and what gdt_is_segment_ring0 asks of it.    *)
Selector(index, level) == index * 8 + level
gdt_is_segment_ring0(selector) == selector % 4 = 0

(* The segments the kernel runs with from gdt_reload_segments on. *)
gdt_reload_segments == [cs |-> Selector(GDT_RING0_CODE_SEGMENT, 0),
                        ss |-> Selector(GDT_RING0_DATA_SEGMENT, 0)]

-----------------------------------------------------------------------------
(* The IDT. *)

CPU_EXCEPTION_INTERRUPT_COUNT == 32
HARDWARE_INTERRUPT_COUNT == 256 - CPU_EXCEPTION_INTERRUPT_COUNT

set_offset(addr) == [offset_low |-> addr[1], offset_mid |-> addr[2],
                     offset_high |-> <<addr[3], addr[4]>>]

get_offset(offset) == <<offset.offset_low, offset.offset_mid>> \o offset.offset_high

create_interrupt_desc(addr) ==
    [offset |-> set_offset(addr), selector |-> Selector(gdt_get_segment_index("ring0 code"), 0),
     interrupt_stack_table |-> 0, type |-> "interrupt gate", present |-> 1,
     cpu_privilege_level |-> 0]

(* Stub v is v * 0x20 behind an address that is at the end of a 64 KiB.     *)
Stub(v) == <<(65000 + v * 32) % 65536, (255 + (65000 + v * 32) \div 65536) % 65536,
             65535, 65535>>
isr_stub_table[i \in 0 .. (CPU_EXCEPTION_INTERRUPT_COUNT - 1)] == Stub(i)
isr_hardware_interrupt_stub_table[i \in 0 .. (HARDWARE_INTERRUPT_COUNT - 1)] == Stub(32 + i)

(* init_cpu_exceptions and init_hardware_interrupts; the index of           *)
(* load_new_interrupt is a byte.                                            *)
init_interrupts ==
    [v \in 0 .. 255 |->
        create_interrupt_desc(IF v < CPU_EXCEPTION_INTERRUPT_COUNT THEN isr_stub_table[v]
                              ELSE isr_hardware_interrupt_stub_table[v - CPU_EXCEPTION_INTERRUPT_COUNT])]

-----------------------------------------------------------------------------
(* SYSCALL and SYSRET. *)

(* An assertion holds the order of the segments that both rely on.          *)
setup_star_registers ==
    [syscall_cs_ss_segment |-> Selector(gdt_get_segment_index("ring0 code"), 0),
     systet_cs_ss_segment  |-> Selector(gdt_get_segment_index("ring3 data") - 1, 3)]

SyscallSegments(star) == [cs |-> star.syscall_cs_ss_segment, ss |-> star.syscall_cs_ss_segment + 8]
SysretSegments(star)  == [cs |-> star.systet_cs_ss_segment + 16,
                          ss |-> star.systet_cs_ss_segment + 8]

setup_rflags_registers == {"IF", "DF"}     \* what SYSCALL clears

-----------------------------------------------------------------------------
(* The frames. *)

Pushed == <<"r15", "r14", "r13", "r12", "r11", "r10", "r9", "r8", "rbp", "rdi", "rsi",
            "rdx", "rcx", "rbx", "rax">>
Popped == <<"rax", "rbx", "rcx", "rdx", "rsi", "rdi", "rbp", "r8", "r9", "r10", "r11",
            "r12", "r13", "r14", "r15">>
Gprs == {Pushed[i] : i \in DOMAIN Pushed}

(* struct interrupt_info. *)
Fields == Popped \o <<"interrupt_index", "potential_error_code", "rip", "code_segment",
                      "rflags", "original_rsp", "stack_segment">>
interrupt_info(stack) ==
    [f \in {Fields[i] : i \in DOMAIN Fields} |-> stack[CHOOSE i \in DOMAIN Fields : Fields[i] = f]]
FrameStack(info) == [i \in DOMAIN Fields |-> info[Fields[i]]]

Push(values, stack) ==         \* one after the other
    [i \in 1 .. Len(values) |-> values[Len(values) + 1 - i]] \o stack
Drop(n, stack) == SubSeq(stack, n + 1, Len(stack))

pushaq(regs, stack) == Push([i \in DOMAIN Pushed |-> regs[Pushed[i]]], stack)
popaq(regs, stack) ==
    [r \in DOMAIN regs |-> IF r \in Gprs THEN stack[CHOOSE i \in DOMAIN Popped : Popped[i] = r]
                           ELSE regs[r]]

(* The vectors whose stub expects the CPU to have pushed an error code, and *)
(* those for which it does; 21 and 29 need CET or SEV-ES, never enabled.    *)
ErrorStubs == {8} \cup (10 .. 14) \cup {17, 30}
CpuPushesError == {8} \cup (10 .. 14) \cup {17, 21, 29, 30}
NeverRaised == {21, 29}
ERROR_CODE == 999

InterruptFrame(v, regs) ==
    (IF v \in CpuPushesError THEN <<ERROR_CODE>> ELSE <<>>)
    \o <<regs.rip, regs.cs, regs.rflags, regs.rsp, regs.ss>>

NoErrorStub(v, stack) == Push(<<0, v>>, stack)                      \* mutant
isr_stub(v, stack) == IF v \in ErrorStubs THEN Push(<<v>>, stack) ELSE Push(<<0, v>>, stack)

SYSCALL == -1          \* the interrupt_index of a syscall

(* The entry from SYSCALL: it has rip in rcx and rflags in r11.  The        *)
(* handler puts the selectors into the frame.                               *)
asm_kernel_syscall_entrypoint(regs) ==
    LET now  == [regs EXCEPT !.rcx = regs.rip, !.r11 = regs.rflags]
        info == interrupt_info(pushaq(now, Push(<<0, regs.rsp, now.r11, 0, now.rcx, 0, SYSCALL>>, <<>>)))
    IN [info EXCEPT !.code_segment = Selector(gdt_get_segment_index("ring3 code"), 3),
                    !.stack_segment = Selector(gdt_get_segment_index("ring3 data"), 3)]

(* The gate of a vector, or LSTAR, leads to code and a segment. *)
Entrance(how) ==
    LET gate == init_interrupts[how]
    IN IF how = SYSCALL
       THEN SyscallSegments(setup_star_registers) @@
                [handler |-> "asm_kernel_syscall_entrypoint", clears |-> setup_rflags_registers]
       ELSE [cs |-> gate.selector, clears |-> IF gate.type = "interrupt gate" THEN {"IF"} ELSE {},
             handler |-> get_offset(gate.offset)]

Enter(how, regs) ==
    IF how = SYSCALL THEN asm_kernel_syscall_entrypoint(regs)
    ELSE interrupt_info(pushaq(regs, isr_stub(how, InterruptFrame(how, regs))))

(* Back, with the frame of the process that runs next. *)
iretq(regs, stack) ==
    [regs EXCEPT !.rip = stack[1], !.cs = stack[2], !.rflags = stack[3], !.rsp = stack[4],
                 !.ss = stack[5]]
sysret(regs, stack) ==
    LET cpu == [regs EXCEPT !.rcx = stack[1], !.r11 = stack[3], !.rsp = stack[4]]
        seg == SysretSegments(setup_star_registers)
    IN [cpu EXCEPT !.rip = cpu.rcx, !.rflags = cpu.r11, !.cs = seg.cs, !.ss = seg.ss]

Leave(how, info, regs) ==
    LET stack == FrameStack(info)
        gprs  == popaq(regs, stack)
        rest  == Drop(Len(Popped) + 2, stack)
    IN IF how = SYSCALL THEN sysret(gprs, rest) ELSE iretq(gprs, rest)

=============================================================================
