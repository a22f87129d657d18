------------------------------- MODULE Devices -------------------------------
(***************************************************************************)
(* The character devices and what is built of them: the serial port        *)
(* (drivers/serial/serial.c), the keyboard as a device, devices that fan   *)
(* out or join others (drivers/char_device.c), the names under /dev        *)
(* (kernel/vfs/devfs.c), and printk (kernel/printk/printk.c).              *)
(*                                                                         *)
(* A pointer to a device is a sequence, empty for NULL.  A device is its   *)
(* name, its capabilities, where a read comes from and where a write goes, *)
(* device by device: the function pointers, followed.                      *)
(***************************************************************************)
EXTENDS InterruptRouting

Com1 == [name |-> "com1", capabilities |-> {"write"}, reads |-> "-1", writes |-> <<"com1">>]
Vga  == [name |-> "vga_text", capabilities |-> {"write"}, reads |-> "-1", writes |-> <<"vga">>]
Framebuffer ==
    [name |-> "framebuffer", capabilities |-> {"write"}, reads |-> "-1", writes |-> <<"framebuffer">>]
Ps2Keyboard ==
    [name |-> "ps2_keyboard", capabilities |-> {"read"}, reads |-> "keyboard", writes |-> <<"panic">>]

(* NULL when the chip fails its loopback test; but only the first call      *)
(* tests it.                                                                *)
serial_com1_init(k, m) == IF k.serial_initialized \/ m.com1 THEN <<Com1>> ELSE <<>>

(* The keyboard's interrupt is set up by the first call. *)
ps2_keyboard_init(k) ==
    LET v == get_free_interrupt_desc(k)
    IN IF k.keyboard_initialized THEN k
       ELSE [set_hardware_interrupt_handler(apic_set_legacy_irq_desc_num(k, LIRQ_KEYBOARD, v), v,
                                            "keyboard_interrupt_handler")
             EXCEPT !.keyboard_initialized = TRUE]

char_dev_create_multiwrite_dev(name, devices) ==
    IF \E i \in DOMAIN devices : "write" \notin devices[i].capabilities THEN <<>>
    ELSE LET upTo[n \in 0 .. Len(devices)] ==
                 IF n = 0 THEN <<>> ELSE upTo[n - 1] \o devices[n].writes
         IN <<[name |-> name, capabilities |-> {"write"}, reads |-> "-1",
               writes |-> upTo[Len(devices)]]>>

char_dev_create_duplex(name, read_dev, write_dev) ==
    IF read_dev = <<>> \/ write_dev = <<>> THEN <<>>
    ELSE IF "read" \notin read_dev[1].capabilities \/ "write" \notin write_dev[1].capabilities THEN <<>>
    ELSE <<[name |-> name, capabilities |-> {"read", "write"}, reads |-> read_dev[1].reads,
            writes |-> write_dev[1].writes]>>

-----------------------------------------------------------------------------
(* devfs. *)

DEVFS_MAX_DEVICES == 256
devfs_register_char_device(devices, dev) ==
    IF Len(devices) < DEVFS_MAX_DEVICES THEN devices \o dev ELSE devices

init_devfs(k, m) ==
    LET serial    == serial_com1_init(k, m)
        keyboard  == ps2_keyboard_init(k)
        broadcast == char_dev_create_multiwrite_dev("write_broadcast", serial \o <<Framebuffer>>)
        tty       == char_dev_create_duplex("tty", <<Ps2Keyboard>>, broadcast)
        register(devices, dev) == devfs_register_char_device(devices, dev)
    IN [keyboard EXCEPT !.char_devices =
            register(register(register(register(register(<<>>, serial), <<Vga>>),
                                       <<Ps2Keyboard>>), <<Framebuffer>>), tty)]

(* The first device of the name. *)
devfs_open(k, name) ==
    LET found == {i \in DOMAIN k.char_devices : k.char_devices[i].name = name}
    IN IF found = {} THEN <<>> ELSE <<k.char_devices[Min(found)]>>

(* Writes: to the serial line, character by character once the chip is      *)
(* ready; to a screen (Console has how it looks); to the keyboard.          *)
com1_write(k, text) == [k EXCEPT !.out.com1 = @ \o text]
screen_write(k, screen, text) == [k EXCEPT !.out[screen] = @ \o text]
ps2_keyboard_write(k) == Panic(k, "does not support write operation")

multiwrite_dev_write(k, devices, text) ==
    LET upTo[n \in 0 .. Len(devices)] ==
            IF n = 0 THEN k
            ELSE CASE devices[n] = "com1"  -> com1_write(upTo[n - 1], text)
                   [] devices[n] = "panic" -> ps2_keyboard_write(upTo[n - 1])
                   [] OTHER -> screen_write(upTo[n - 1], devices[n], text)
    IN upTo[Len(devices)]

char_dev_read(dev) == dev.reads
char_dev_write(k, dev, text) == multiwrite_dev_write(k, dev.writes, text)

-----------------------------------------------------------------------------
(* printk: to the devices it has, which it does not check.                  *)

write_devices(k, text) ==
    IF \E i \in DOMAIN k.ch_devices : k.ch_devices[i] = <<>> THEN Panic(k, "undefined")
    ELSE LET upTo[n \in 0 .. Len(k.ch_devices)] ==
                 IF n = 0 THEN k ELSE char_dev_write(upTo[n - 1], k.ch_devices[n][1], text)
         IN upTo[Len(k.ch_devices)]

number_to_base_digit(digit) ==
    <<"0", "1", "2", "3", "4", "5", "6", "7", "8", "9", "A", "B", "C", "D", "E", "F">>[digit + 1]

string_reverse(s) == [i \in DOMAIN s |-> s[Len(s) + 1 - i]]

WhileAboveBase(value, base) ==                                      \* mutant
    LET digits[v \in 0 .. value] ==
            IF v <= base THEN <<number_to_base_digit(v % base)>>
            ELSE <<number_to_base_digit(v % base)>> \o digits[v \div base]
    IN string_reverse(digits[value])
itoa_unsigned(value, base) ==
    LET digits[v \in 0 .. value] ==     \* the last one first
            <<number_to_base_digit(v % base)>>
                \o (IF v \div base = 0 THEN <<>> ELSE digits[v \div base])
    IN string_reverse(digits[value])

itoa_signed(value, base) ==
    IF value < 0 THEN <<"-">> \o itoa_unsigned(value * (-1), base) ELSE itoa_unsigned(value, base)

INT_BITS == 16          \* an int32_t in the code
AsInt(word) == LET low == word % 2^INT_BITS
               IN IF low >= 2^(INT_BITS - 1) THEN low - 2^INT_BITS ELSE low

is_special_symbol(c) == c \in {"c", "d", "s", "u", "x"}

(* A parameter is what its slot holds when read as each of the types. *)
Converted(symbol, param) ==
    CASE symbol = "c" -> <<param.char>>
      [] symbol = "d" -> itoa_signed(AsInt(param.word), 10)
      [] symbol = "s" -> param.string
      [] symbol = "u" -> itoa_unsigned(param.word, 10)
      [] symbol = "x" -> itoa_unsigned(param.word, 16)

printk(k, format, params) ==
    LET special(i) == format[i] = "%" /\ i < Len(format) /\ is_special_symbol(format[i + 1])
        from[i \in Nat, p \in Nat] ==
            IF i > Len(format) THEN <<>>
            ELSE IF special(i) THEN Converted(format[i + 1], params[p]) \o from[i + 2, p + 1]
            ELSE <<format[i]>> \o from[i + 1, p]
    IN write_devices(k, from[1, 1])

=============================================================================
