---------------------------- MODULE MCKernelBoot ----------------------------
(***************************************************************************)
(* Machines: with ACPI tables of both generations, interrupt lines on      *)
(* several pins, firmware that left something in the redirection entries,  *)
(* one I/O APIC or two; and machines that lack one thing.  Then formats of *)
(* printk, and writes to the devices of a machine that is up.              *)
(***************************************************************************)
EXTENDS KernelBoot, Questions

IO_APIC  == 4096
IO_APIC2 == 8192
LAPIC    == 12288

Override(bus, irq, gsi) ==
    [entry_type |-> "override", bus_source |-> bus, irq_source |-> irq,
     global_system_interrupt |-> gsi]
IoApic(addr) == [entry_type |-> "io_apic", io_apic_addr |-> addr]
Cpu == [entry_type |-> "local_apic"]

(* The lines of the ISA bus that are not on the pin of their number. *)
Wirings == {<<>>, <<[irq |-> 0, gsi |-> 2]>>, <<[irq |-> 1, gsi |-> 9], [irq |-> 9, gsi |-> 1]>>,
            <<[irq |-> 15, gsi |-> 23]>>}

(* Entries that are not about the ISA bus. *)
Others == {<<>>, <<Override(1, 1, 5)>>, <<Override(0, 16, 7)>>}

Madt(isa, others, apics, sum) ==
    [signature |-> "APIC", sum |-> sum, lapic_addr |-> LAPIC,
     entries |-> <<Cpu>> \o apics
                 \o [i \in DOMAIN isa |-> Override(0, isa[i].irq, isa[i].gsi)] \o others]
Table(signature, sum) == [signature |-> signature, sum |-> sum]

Rsdt(tables, size) == [length |-> STD_HEADER + size * Len(tables), entries |-> tables]

Registers(left) == [r \in 16 .. (15 + 2 * PINS) |-> IF r % 2 = 0 THEN left.low ELSE left.high]

Machine(revision, isa, others, left, speed) ==
    [com1 |-> TRUE, framebuffer |-> TRUE, memory_map |-> TRUE, msr |-> TRUE, apic |-> TRUE,
     init_file |-> TRUE, isa |-> isa, timer_speed |-> speed,
     rsdp |-> <<[sum |-> 512, extended_sum |-> 256 * revision, revision |-> revision]>>,
     rsdt |-> Rsdt(<<Table("FACP", 1), Madt(isa, others, <<IoApic(IO_APIC)>>, 1024)>>,
                   IF revision >= 2 THEN 8 ELSE 4),
     gsi_base |-> (IO_APIC :> 0),
     io_apic |-> (IO_APIC :> Registers(left))]

(* Masked, as after a reset; or the vector and CPU of a firmware.  Other    *)
(* firmware leaves the lines open, or a mode: lowest priority, ExtINT, a    *)
(* logical destination, active low, level triggered.                        *)
Masked == [low |-> 2^16, high |-> 0]
Leftovers == {Masked, [low |-> 2^16 + 239, high |-> 3 * 2^24]}
Modes == {[low |-> 239, high |-> 0], [low |-> 239, high |-> 2^24]}
         \cup {[low |-> 2^16 + mode, high |-> 0] :
                 mode \in {2^8, 7 * 2^8, 2^11, 2^13, 2^15, 2^15 + 2^13}}

Whole == {Machine(r, isa, others, left, speed) : r \in {0, 2}, isa \in Wirings, others \in Others,
                                                 left \in Leftovers, speed \in {1, 838}}
         \cup {Machine(2, isa, <<>>, left, 1) : isa \in Wirings, left \in Modes}

Plain(r) == Machine(r, <<>>, <<>>, Masked, 1)
With(m, madt) == [m EXCEPT !.rsdt.entries[2] = madt]
TwoApics(order) ==
    [With(Plain(2), Madt(<<>>, <<>>, order, 0))
     EXCEPT !.gsi_base = (IO_APIC :> 0) @@ (IO_APIC2 :> PINS),
            !.io_apic = @ @@ (IO_APIC2 :> @[IO_APIC])]

(* What is missing, and how the kernel stops. *)
Faults == [f \in {"com1", "framebuffer", "memory", "msr", "apic", "init", "rsdp", "rsdp sum",
                  "xsdp sum", "madt", "madt sum", "io_apic"} |->
    CASE f = "com1"        -> [on |-> [Plain(2) EXCEPT !.com1 = FALSE], stops |-> "undefined"]
      [] f = "framebuffer" -> [on |-> [Plain(2) EXCEPT !.framebuffer = FALSE], stops |-> "undefined"]
      [] f = "memory"      -> [on |-> [Plain(2) EXCEPT !.memory_map = FALSE], stops |-> "no response"]
      [] f = "msr"         -> [on |-> [Plain(2) EXCEPT !.msr = FALSE],
                               stops |-> "This cpu does not support MSR"]
      [] f = "apic"        -> [on |-> [Plain(2) EXCEPT !.apic = FALSE], stops |-> "APIC is not supported"]
      [] f = "init"        -> [on |-> [Plain(2) EXCEPT !.init_file = FALSE],
                               stops |-> "Failed to open init process file /sbin/init"]
      [] f = "rsdp"        -> [on |-> [Plain(2) EXCEPT !.rsdp = <<>>], stops |-> "no RSDP"]
      [] f = "rsdp sum"    -> [on |-> [Plain(0) EXCEPT !.rsdp[1].sum = 511], stops |-> "RSDP checksum"]
      [] f = "xsdp sum"    -> [on |-> [Plain(2) EXCEPT !.rsdp[1].extended_sum = 128],
                               stops |-> "XSDP checksum"]
      [] f = "madt"        -> [on |-> With(Plain(2), Table("HPET", 0)), stops |-> "no MADT"]
      [] f = "madt sum"    -> [on |-> With(Plain(0), Madt(<<>>, <<>>, <<IoApic(IO_APIC)>>, 255)),
                               stops |-> "ACPI SDT header checksum"]
      [] f = "io_apic"     -> [on |-> With(Plain(2), Madt(<<>>, <<>>, <<>>, 0)), stops |-> "undefined"]]

Machines == Whole \cup {Faults[f].on : f \in DOMAIN Faults}
            \cup {TwoApics(<<IoApic(IO_APIC2), IoApic(IO_APIC)>>),
                  TwoApics(<<IoApic(IO_APIC), IoApic(IO_APIC2)>>)}

Expected(m) ==
    LET f == {f \in DOMAIN Faults : Faults[f].on = m}
    IN IF f = {} THEN "" ELSE Faults[CHOOSE g \in f : TRUE].stops

-----------------------------------------------------------------------------
(* What is said on a machine that is up: printk, and writes of programs. *)

Words == {0, 9, 10, 255, 4096, 2^15 - 1, 2^15, 2^16 - 1, 2^16 + 7, 2147483647}
Param(word) == [char |-> "z", string |-> <<"h", "i">>, word |-> word]
Formats == UNION {[1 .. n -> {"a", "%", "d", "x"}] : n \in 0 .. 5}
Sayings ==
    [to : {"printk"}, text : Formats, words : {<<7, 2^16 - 1>>}]
    \cup [to : {"printk"}, text : {<<"%", s, "%", s>> : s \in {"c", "d", "s", "u", "x"}},
          words : Words \X Words]
    \cup [to : {"tty", "com1", "framebuffer", "vga_text", "ps2_keyboard", "lp0"},
          text : {<<"h", "i">>}, words : {<<0, 0>>}]

Up == Loaded(Plain(2))
Running == [kmain(Plain(2)) EXCEPT !.out = Up.out]      \* the boot messages cleared away

Say(s) ==
    LET dev == vfs_open(Running, Plain(2), <<"dev", s.to>>)
    IN IF s.to = "printk"
       THEN [k |-> printk(Running, s.text, <<Param(s.words[1]), Param(s.words[2])>>), read |-> ""]
       ELSE IF dev = <<>> THEN [k |-> Running, read |-> "NULL"]
       ELSE [k |-> char_dev_write(Running, dev[1], s.text), read |-> char_dev_read(dev[1])]

KernelBootAnswer == Answer("kmain", kmain(input))
SayAnswer == Answer("say", Say(input))

-----------------------------------------------------------------------------
(* What the keyboard needs beside what kmain does: the I/O APIC of the ISA  *)
(* bus listed last, and an entry whose modes, which are not set, fit.       *)
KeysArrive(m) ==
    LET entry == EntryOf(m.io_apic, m, LIRQ_KEYBOARD)
    IN /\ IoApicOf(m, GlobalInterrupt(m, LIRQ_KEYBOARD)) = io_apic_addr(m.rsdt.entries[2].entries)
       /\ entry.delv_mode \in {0, 1} /\ entry.dest_mode = 0 /\ entry.pin_polarity = 0

(* kmain gets to the first process on a machine that has what it needs.  On *)
(* one that does not, the part that asks for it panics; the serial line,    *)
(* the framebuffer and the I/O APIC are used without asking (undefined).    *)
(* Once the process runs, a tick reaches the timer's handler, ten           *)
(* milliseconds after the one before.  A key reaches the keyboard's         *)
(* handler, on whatever pin the firmware wired the line, exactly when the   *)
(* ISA bus's I/O APIC is the last one listed and the firmware left fixed or *)
(* lowest-priority delivery, a physical destination and a line that is      *)
(* active high in the entry.  No other line is rerouted, opened or closed.  *)
(* Of the faults of a program (division, debugging, opcode, stack,          *)
(* protection, page, x87, alignment, SIMD), the last alone has no handler   *)
(* and stops the kernel.                                                    *)
UserFaults == {0, 1, 6, 12, 13, 14, 16, 17, 19}
SimdFault  == 19
IrqsReachHandlers == Answered("kmain") =>
    LET k == output
    IN /\ k.stopped = Expected(input)
       /\ k.program <=> k.stopped = ""
       /\ k.program =>
            /\ Delivered(k, input, LIRQ_KEYBOARD) = "keyboard_interrupt_handler" <=> KeysArrive(input)
            /\ \A irq \in 0 .. (LIRQ_COUNT - 1) \ {LIRQ_KEYBOARD} :
                  EntryOf(k.io_apic, input, irq) = EntryOf(input.io_apic, input, irq)
            /\ TimerInterrupt(k) = "lapic_timer_handler" /\ TimerPeriodic(k)
            /\ read_lapic_register(k, "TMRINITCNT") = 11930 * input.timer_speed
            /\ read_lapic_register(k, "TMRDIV") = DIVIDE_BY_16
            /\ k.pic = "masked" /\ k.sce /\ k.kernel_gs = "g_kernel_stack"
            /\ \A v \in UserFaults : isr_central_handler(k, v) =
                  IF v = SimdFault THEN "panic" ELSE "process_exception_handler"

(* The numeral of a number, and where a format has directives. *)
Numeral(v, base) ==
    LET n == Min({n \in 1 .. (IF base = 16 THEN 8 ELSE 10) : v \div base^(n - 1) < base})
    IN [i \in 1 .. n |-> number_to_base_digit((v \div base^(n - i)) % base)]
Signed(v) == IF v < 0 THEN <<"-">> \o Numeral(-v, 10) ELSE Numeral(v, 10)

Meant(format, words) ==
    LET directive == {i \in 1 .. (Len(format) - 1) :
                        format[i] = "%" /\ format[i + 1] \in {"c", "d", "s", "u", "x"}}
        word(i) == words[Cardinality({j \in directive : j <= i})]
        piece(i) ==
            IF i - 1 \in directive THEN <<>>
            ELSE IF i \notin directive THEN <<format[i]>>
            ELSE CASE format[i + 1] = "c" -> <<"z">>
                   [] format[i + 1] = "s" -> <<"h", "i">>
                   [] format[i + 1] = "u" -> Numeral(word(i), 10)
                   [] format[i + 1] = "x" -> Numeral(word(i), 16)
                   [] format[i + 1] = "d" -> Signed((((word(i) % 2^16) + 2^15) % 2^16) - 2^15)
        upTo[n \in 0 .. Len(format)] == IF n = 0 THEN <<>> ELSE upTo[n - 1] \o piece(n)
    IN upTo[Len(format)]

(* The serial line and the screen show the same: every message of the boot, *)
(* what printk's format means, with each parameter at its directive and     *)
(* every number in full, and what a program writes to /dev/tty, whose reads *)
(* come from the keyboard.  A device by itself gets what is written to it.  *)
SameOnBothOutputs ==
    /\ Answered("kmain") =>
         /\ output.out.com1 = output.out.framebuffer
         /\ output.program => output.out.com1 = SelectSeq(Steps, LAMBDA s : s # "lapic")
    /\ Answered("say") =>
         LET out  == output.k.out
             text == IF input.to = "printk" THEN Meant(input.text, input.words) ELSE input.text
             seen == CASE input.to \in {"printk", "tty"} -> {"com1", "framebuffer"}
                       [] input.to \in {"com1", "framebuffer"} -> {input.to}
                       [] input.to = "vga_text" -> {"vga"}
                       [] OTHER -> {}
         IN /\ out = [o \in {"com1", "framebuffer", "vga"} |-> IF o \in seen THEN text ELSE <<>>]
            /\ output.read = CASE input.to = "printk" -> ""
                               [] input.to = "lp0" -> "NULL"
                               [] input.to \in {"tty", "ps2_keyboard"} -> "keyboard"
                               [] OTHER -> "-1"
            /\ output.k.stopped # "" => input.to = "ps2_keyboard"

=============================================================================
