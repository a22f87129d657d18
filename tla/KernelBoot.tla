----------------------------- MODULE KernelBoot -----------------------------
(***************************************************************************)
(* kmain (kernel/kmain.c): the parts of the kernel are brought up one      *)
(* after the other, on a machine that may lack what they need, up to the   *)
(* first process (init_process_manager).                                   *)
(*                                                                         *)
(* What a part does to its own state is in its own module; here it is what *)
(* the parts behind it rely on.                                            *)
(***************************************************************************)
EXTENDS Devices

(* A freshly loaded kernel: its variables, and the registers of the machine *)
(* as the firmware left them.                                               *)
Loaded(m) ==
    [stopped |-> "", ch_devices |-> <<<<>>, <<>>>>, serial_initialized |-> FALSE,
     keyboard_initialized |-> FALSE, char_devices |-> <<>>,
     out |-> [com1 |-> <<>>, framebuffer |-> <<>>, vga |-> <<>>],
     up |-> {}, msr_enabled |-> FALSE, rsdt |-> <<>>, is_xsdt |-> FALSE, madt |-> FALSE,
     lapic_addr |-> 0, io_apic_addr |-> 0, override |-> [irq \in 0 .. (LIRQ_COUNT - 1) |-> 0],
     handler |-> [v \in 0 .. 255 |-> NO_HANDLER], io_apic_base |-> 0, lapic_base |-> 0,
     pic |-> "open", io_apic |-> m.io_apic,
     lapic |-> (800 :> APIC_LVT_INT_MASKED) @@ (896 :> 0) @@ (912 :> 0) @@ (992 :> 0),
     sce |-> FALSE, kernel_gs |-> "",
     timer_handler |-> NO_HANDLER, program |-> FALSE]

(* The messages of the panic come first, so the devices have to be there.   *)
kernel_panic(k) ==
    LET said == write_devices([k EXCEPT !.stopped = ""], <<"KERNEL PANIC">>)
    IN IF said.stopped = "undefined" THEN said ELSE [said EXCEPT !.stopped = k.stopped]

Brought(k, part) == [k EXCEPT !.up = @ \cup {part}]

(* Without a framebuffer, init_framebuffer_print stops the kernel. *)
init_printk(k, m) ==
    LET serial == [k EXCEPT !.ch_devices[1] = serial_com1_init(k, m), !.serial_initialized = TRUE]
    IN IF ~ m.framebuffer THEN Panic(serial, "No framebuffer found")
       ELSE [serial EXCEPT !.ch_devices[2] = <<Framebuffer>>]

init_memory(k, m, part) ==
    IF part # "kernel_heap" /\ ~ m.memory_map THEN Panic(k, "no response") ELSE Brought(k, part)

cpuid_is_msr_supported(m) == m.msr
init_msr_cpu(k, m) ==
    IF ~ cpuid_is_msr_supported(m) THEN Panic(k, "This cpu does not support MSR") ELSE [k EXCEPT !.msr_enabled = TRUE]

enable_system_call_extension(k) == [k EXCEPT !.sce = TRUE]
setup_gs_kernel_gs_base(k) == [k EXCEPT !.kernel_gs = "g_kernel_stack"]

(* STAR, LSTAR and FSMASK are in TrapTables.  msr_set_register asks for init_msr_cpu. *)
init_usermode(k) ==
    IF ~ k.msr_enabled THEN Panic(k, "MSR is not enabled")
    ELSE Brought(setup_gs_kernel_gs_base(enable_system_call_extension(k)), "usermode")

(* FAT12 is mounted, then the devices are opened.  Of the disk only the     *)
(* program of the first process matters here; Storage has the rest.         *)
vfs_init(k, m) == init_devfs(Brought(k, "fat12"), m)

vfs_open(k, m, path) ==
    IF Head(path) = "dev" THEN devfs_open(k, path[2])
    ELSE IF path = <<"sbin", "init">> /\ m.init_file THEN <<path>> ELSE <<>>

ProcessExceptions == {0, 1, 3, 6, 12, 13, 14, 16, 17}

init_process_manager(k, m) ==
    IF vfs_open(k, m, <<"dev", "tty">>) = <<>> THEN Panic(k, "Failed to open /dev/tty")
    ELSE IF vfs_open(k, m, <<"sbin", "init">>) = <<>> THEN Panic(k, "Failed to open init process file /sbin/init")
    ELSE [set_cpu_exception_handlers(k, ProcessExceptions, "process_exception_handler")
          EXCEPT !.timer_handler = "pm_scheduler_context_switch", !.program = TRUE]

Steps == <<"printk", "gdt", "cpu_exceptions", "pmm", "vmm", "kernel_heap", "msr_cpu",
           "hardware_interrupts", "acpi", "madt", "ioapic", "lapic", "cmos", "vfs", "usermode",
           "process_manager">>

Step(k, m, step) ==
    CASE step = "printk"          -> init_printk(k, m)
      [] step \in {"gdt", "cpu_exceptions", "hardware_interrupts", "cmos"} -> Brought(k, step)
      [] step \in {"pmm", "vmm", "kernel_heap"} -> init_memory(k, m, step)
      [] step = "msr_cpu"         -> init_msr_cpu(k, m)
      [] step = "acpi"            -> init_acpi(k, m)
      [] step = "madt"            -> init_madt(k)
      [] step = "ioapic"          -> init_ioapic(k, m)
      [] step = "lapic"           -> init_lapic(k, m)
      [] step = "vfs"             -> vfs_init(k, m)
      [] step = "usermode"        -> init_usermode(k)
      [] step = "process_manager" -> init_process_manager(k, m)

(* The parts whose variables a step uses without asking. *)
Uses(step) ==
    CASE step \in {"acpi", "madt", "ioapic"} -> {"vmm"}
      [] step = "kernel_heap"     -> {"pmm"}
      [] step = "vfs"             -> {"kernel_heap"}
      [] step = "process_manager" -> {"kernel_heap", "vmm", "pmm", "gdt", "usermode", "fat12"}
      [] OTHER -> {}

(* Every part but the local APIC says that it is up. *)
kmain(m) ==
    LET after[n \in 0 .. Len(Steps)] ==
            IF n = 0 THEN Loaded(m)
            ELSE LET before == after[n - 1]
                     now    == IF Uses(Steps[n]) \subseteq before.up THEN Step(before, m, Steps[n])
                               ELSE Panic(before, "undefined")
                 IN IF before.stopped # "" THEN before
                    ELSE IF now.stopped # "" THEN kernel_panic(now)
                    ELSE IF Steps[n] = "lapic" THEN now
                    ELSE write_devices(now, <<Steps[n]>>)
    IN after[Len(Steps)]

=============================================================================
