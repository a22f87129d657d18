-------------------------- MODULE InterruptRouting --------------------------
(***************************************************************************)
(* From a line of the hardware to its handler: the tables of the firmware  *)
(* (kernel/acpi/acpi.c, madt.c), the I/O APIC and the local APIC with its  *)
(* timer (apic.c), and the handlers behind the vectors                     *)
(* (hardware_intrrupts.c, cpu_exceptions.c).                               *)
(*                                                                         *)
(* k is the kernel's state, m the machine.  A table of the firmware is its *)
(* signature, the sum of its bytes, its length and its entries; an I/O     *)
(* APIC maps the index of a register to what is in it.                     *)
(***************************************************************************)
EXTENDS TrapTables

Panic(k, why) == [k EXCEPT !.stopped = why]

-----------------------------------------------------------------------------
(* ACPI. *)

STD_HEADER == 36                    \* sizeof(struct acpi_std_header)
ChecksumValid(sum) == sum % 256 = 0

(* An old machine has a list of 4-byte addresses, a newer one of 8 bytes.   *)
(* The sum of struct xsdp is that of struct rsdp and the bytes behind it.   *)
init_acpi(k, m) ==
    LET rsdp    == m.rsdp[1]
        is_xsdt == rsdp.revision >= 2
    IN IF m.rsdp = <<>> THEN Panic(k, "no RSDP")
       ELSE IF ~ ChecksumValid(rsdp.sum) THEN Panic(k, "RSDP checksum")
       ELSE IF is_xsdt /\ ~ ChecksumValid(rsdp.sum + rsdp.extended_sum) THEN Panic(k, "XSDP checksum")
       ELSE [k EXCEPT !.rsdt = <<m.rsdt>>, !.is_xsdt = is_xsdt]

(* The first table with the signature, or none; its sum has to be valid.    *)
acpi_get_std_header(k, signature) ==
    LET rsdt    == k.rsdt[1]
        entries == (rsdt.length - STD_HEADER) \div (IF k.is_xsdt THEN 8 ELSE 4)
        found   == {i \in 1 .. entries : rsdt.entries[i].signature = signature}
    IN IF found = {} THEN <<>> ELSE <<rsdt.entries[Min(found)]>>

-----------------------------------------------------------------------------
(* The MADT: where the APICs are, and which interrupts of the ISA bus are   *)
(* not on the pin of their number.                                          *)

LIRQ_COUNT    == 16
LIRQ_KEYBOARD == 1

io_apic_addr(entries) ==            \* the last one
    LET found == {i \in DOMAIN entries : entries[i].entry_type = "io_apic"}
    IN IF found = {} THEN 0 ELSE entries[Max(found)].io_apic_addr

BusIgnored(entries) ==                                              \* mutant
    [irq \in 0 .. (LIRQ_COUNT - 1) |->
        LET found == {i \in DOMAIN entries : entries[i].entry_type = "override"
                                             /\ entries[i].irq_source = irq}
        IN IF found = {} THEN -1 ELSE entries[Max(found)].global_system_interrupt]
legacy_interrupt_source_override(entries) ==
    [irq \in 0 .. (LIRQ_COUNT - 1) |->
        LET found == {i \in DOMAIN entries : /\ entries[i].entry_type = "override"
                                             /\ entries[i].bus_source = 0
                                             /\ entries[i].irq_source = irq}
        IN IF found = {} THEN -1 ELSE entries[Max(found)].global_system_interrupt]

init_madt(k) ==
    LET madt == acpi_get_std_header(k, "APIC")
    IN IF madt = <<>> THEN Panic(k, "no MADT")
       ELSE IF ~ ChecksumValid(madt[1].sum) THEN Panic(k, "ACPI SDT header checksum")
       ELSE [k EXCEPT !.madt = TRUE, !.lapic_addr = madt[1].lapic_addr,
                      !.io_apic_addr = io_apic_addr(madt[1].entries),
                      !.override = legacy_interrupt_source_override(madt[1].entries)]

(* These assert that the MADT has been read; their callers below say so.    *)
madt_get_io_apic_base_addr(k) == k.io_apic_addr
madt_get_lapic_base_addr(k) == k.lapic_addr
madt_get_gsi_for_irq(k, irq) == IF k.override[irq] = -1 THEN irq ELSE k.override[irq]

-----------------------------------------------------------------------------
(* Handlers. *)

NO_HANDLER == "none"

get_free_interrupt_desc(k) ==
    Min({v \in DOMAIN k.handler : v >= CPU_EXCEPTION_INTERRUPT_COUNT /\ k.handler[v] = NO_HANDLER})
set_hardware_interrupt_handler(k, v, handler) == [k EXCEPT !.handler[v] = handler]
set_cpu_exception_handlers(k, vectors, handler) ==
    [k EXCEPT !.handler = [v \in DOMAIN @ |-> IF v \in vectors THEN handler ELSE @[v]]]

(* The two central handlers: a vector without a handler stops the kernel.   *)
isr_central_handler(k, v) == IF k.handler[v] = NO_HANDLER THEN "panic" ELSE k.handler[v]

-----------------------------------------------------------------------------
(* The I/O APIC.  A redirection entry is two double words of bit fields.    *)
(* Where there is no I/O APIC, memory is written.                           *)

REDIRECTION_ENTRY_INDEX(pin) == 16 + pin * 2

apic_redirection_entry(lower_dword, upper_dword) ==
    LET bits(first, count) == (lower_dword \div 2^first) % 2^count
    IN [vector |-> bits(0, 8), delv_mode |-> bits(8, 3), dest_mode |-> bits(11, 1),
        delv_status |-> bits(12, 1), pin_polarity |-> bits(13, 1), remote_irr |-> bits(14, 1),
        trigger_mode |-> bits(15, 1), mask |-> bits(16, 1),
        destination |-> upper_dword \div 2^24]

disable_pic(k) == [k EXCEPT !.pic = "masked"]
cpuid_is_apic_supported(m) == m.apic

init_ioapic(k, m) ==
    IF ~ cpuid_is_apic_supported(m) THEN Panic(k, "APIC is not supported")
    ELSE IF ~ k.madt THEN Panic(k, "madt must be initialized")
    ELSE disable_pic([k EXCEPT !.io_apic_base = madt_get_io_apic_base_addr(k),
                               !.lapic_base = madt_get_lapic_base_addr(k)])

(* Only the vector, the mask and the destination are set. *)
apic_set_legacy_irq_desc_num(k, irq, vector) ==
    LET reg  == REDIRECTION_ENTRY_INDEX(madt_get_gsi_for_irq(k, irq))
        regs == k.io_apic[k.io_apic_base]
        low  == regs[reg]
        flags == ((low \div 256) % 256) * 256
    IN IF ~ k.madt THEN Panic(k, "madt must be initialized")
       ELSE IF k.io_apic_base \notin DOMAIN k.io_apic THEN Panic(k, "undefined")
       ELSE [k EXCEPT !.io_apic[k.io_apic_base] =
            [regs EXCEPT ![reg]     = (low \div 2^17) * 2^17 + flags + (vector % 256),
                         ![reg + 1] = @ % 2^24]]

-----------------------------------------------------------------------------
(* The timer of the local APIC, measured against the PIT. *)

PIT_TICKS_PER_MS == 1193
MILLISECONDS_PER_TIMER_ACTIVATION == 10
TIMER_MAX == 2^30 - 1               \* a 32-bit counter in the code

(* The count goes to the PIT in two bytes; so many of its ticks pass. *)
time_pit_spin_sleep_ms(milliseconds) ==
    milliseconds * ((PIT_TICKS_PER_MS % 256) + 256 * ((PIT_TICKS_PER_MS \div 256) % 256))

(* The registers used, by their offsets, and bits of LVT_TMR. *)
lapic_registers == [LVT_TMR |-> 800, TMRINITCNT |-> 896, TMRCURRCNT |-> 912, TMRDIV |-> 992]
APIC_LVT_INT_MASKED == 2^16
LAPIC_TMR_PERIODIC  == 2^17
DIVIDE_BY_16 == 3

read_lapic_register(k, reg) == k.lapic[lapic_registers[reg]]
write_lapic_register(k, reg, value) == [k EXCEPT !.lapic[lapic_registers[reg]] = value]

(* The counter goes down from TMRINITCNT by timer_speed a tick of the PIT. *)
CountedDown(k, m, pit_ticks) ==
    [k EXCEPT !.lapic[lapic_registers["TMRCURRCNT"]] =
        read_lapic_register(k, "TMRINITCNT") - pit_ticks * m.timer_speed]

init_lapic(k, m) ==
    LET started  == write_lapic_register(write_lapic_register(k, "TMRDIV", DIVIDE_BY_16),
                                         "TMRINITCNT", TIMER_MAX)
        slept    == CountedDown(started, m, time_pit_spin_sleep_ms(MILLISECONDS_PER_TIMER_ACTIVATION))
        measured == write_lapic_register(slept, "LVT_TMR", APIC_LVT_INT_MASKED)
        ticks    == TIMER_MAX - read_lapic_register(measured, "TMRCURRCNT")
        v        == get_free_interrupt_desc(measured)
        handled  == set_hardware_interrupt_handler(measured, v, "lapic_timer_handler")
        periodic == write_lapic_register(handled, "LVT_TMR", v + LAPIC_TMR_PERIODIC)
    IN IF k.lapic_base = 0 THEN Panic(k, "undefined")
       ELSE write_lapic_register(write_lapic_register(periodic, "TMRDIV", DIVIDE_BY_16),
                                 "TMRINITCNT", ticks)

-----------------------------------------------------------------------------
(* The hardware: the timer does what LVT_TMR says when it has counted down. *)
(* A line of the ISA bus is a global interrupt, which is a pin of the I/O   *)
(* APIC that serves it.  A pin that is not masked, for a line that is high  *)
(* when active, delivers its vector to the CPU of its destination, here 0,  *)
(* if the delivery is fixed or of lowest priority; the other modes of       *)
(* delivery have no vector, and a logical destination is a set of CPUs.     *)
PINS == 24

GlobalInterrupt(m, irq) ==
    LET o == {i \in DOMAIN m.isa : m.isa[i].irq = irq}
    IN IF o = {} THEN irq ELSE m.isa[CHOOSE i \in o : TRUE].gsi

TimerInterrupt(k) ==
    LET lvt == read_lapic_register(k, "LVT_TMR")
    IN IF (lvt \div APIC_LVT_INT_MASKED) % 2 = 1 THEN "nothing" ELSE isr_central_handler(k, lvt % 256)
TimerPeriodic(k) == (read_lapic_register(k, "LVT_TMR") \div LAPIC_TMR_PERIODIC) % 4 = 1

IoApicOf(m, gsi) ==
    CHOOSE a \in DOMAIN m.gsi_base : gsi \in m.gsi_base[a] .. (m.gsi_base[a] + PINS - 1)

EntryOf(io_apic, m, irq) ==
    LET gsi  == GlobalInterrupt(m, irq)
        unit == IoApicOf(m, gsi)
        reg  == REDIRECTION_ENTRY_INDEX(gsi - m.gsi_base[unit])
    IN apic_redirection_entry(io_apic[unit][reg], io_apic[unit][reg + 1])

Delivered(k, m, irq) ==
    LET entry == EntryOf(k.io_apic, m, irq)
    IN IF entry.mask = 1 THEN "nothing"
       ELSE IF entry.pin_polarity = 1 THEN "the idle line"
       ELSE IF entry.delv_mode \notin {0, 1} THEN "no vector"
       ELSE IF entry.dest_mode = 1 THEN "a set of CPUs"
       ELSE IF entry.destination # 0 THEN "another CPU"
       ELSE isr_central_handler(k, entry.vector)

=============================================================================
