--------------------------------- MODULE Ports ---------------------------------
(***************************************************************************)
(* Drivers that share a FIFO with hardware that goes on by itself: the     *)
(* serial port (drivers/serial/serial.c, pl011_uart.c), the I2C bus        *)
(* (drivers/i2c/bcm2835_i2c.c) and the SPI bus (drivers/spi/bcm2835_spi.c).*)
(*                                                                         *)
(* Bytes are numbered in the order they are sent in: 1, 2, ...  One        *)
(* transfer is made at a time.  The hardware is not code of this           *)
(* repository: its FIFOs, flags and the line are as the drivers use them.  *)
(* An I2C device that does not answer ends the transfer with DONE and ERR, *)
(* and what was put into the FIFO stays there.  The timeout of the serial  *)
(* port (32 bits without a new byte) is taken not to fall between two      *)
(* reads of registers by the interrupt handler.  And the pins they all use *)
(* (drivers/gpio/gpio.c).                                                  *)
(***************************************************************************)
EXTENDS Integers, Sequences, SequencesExt

CONSTANTS
    FifoDepth,        \* bytes that a FIFO holds
    RxLevel,          \* bytes in the serial port's that interrupt: 1/8 of it
    TransferLengths,  \* of I2C and SPI transfers
    MaxTransfers,     \* bound: transfers
    MaxText,          \* bound: bytes of a text that is written to the serial port
    MaxArrivals       \* bound: bytes that arrive there

ASSUME PortsAssumption ==
    /\ FifoDepth \in Nat \ {0} /\ RxLevel \in 1..FifoDepth
    /\ TransferLengths \subseteq Nat /\ {MaxTransfers, MaxArrivals, MaxText} \subseteq Nat

VARIABLES
    job,              \* the transfer: kind, length, and whether a device answers
    job_at,           \* where its driver is
    sent, taken,      \* bytes that it has put into the FIFO, and the buffer it has filled
    outcome,          \* what it returned
    tx_fifo, rx_fifo, active, status,
    wire_out, wire_in,\* what has gone over the wires: bytes, and their number
    transfers,
    uart_rx, uart_tx, uart_line, \* the serial port's FIFOs, and what has left it
    timer, rtim,      \* its timeout may come, and has come
    handler_at,       \* where the interrupt handler is
    console,          \* what it has given to the console
    uart_text, cr_put, \* what is left to write, and that "\r" is out for its first character
    written,          \* history: what was to be written
    arrived, overrun  \* history: the numbers of bytes that arrived; those lost

bus_vars == <<job, job_at, sent, taken, outcome, tx_fifo, rx_fifo, active, status,
              wire_out, wire_in, transfers>>
uart_vars == <<uart_rx, uart_tx, uart_line, timer, rtim, handler_at, console, uart_text, cr_put,
               written, arrived, overrun>>

-----------------------------------------------------------------------------
(* I2C and SPI: the drivers                                                *)

\* Fault: what an earlier transfer left in the FIFO is not cleared.
Cleared_not(fifo) == fifo

\* I2C_CONTROL_CLEAR_FIFO, SPI0_CS_CLEAR_BOTH
Cleared(fifo) == <<>>

begin_transfer ==
    /\ job_at = "idle" /\ transfers < MaxTransfers
    /\ \E kind \in {"i2c_write", "i2c_read", "spi"}, n \in TransferLengths, answers \in BOOLEAN :
          /\ kind = "spi" => answers
          /\ job' = [kind |-> kind, length |-> n, answers |-> answers]
          /\ job_at' = CASE kind = "i2c_write" -> "push" [] kind = "i2c_read" -> "poll" [] OTHER -> "tx"
    /\ sent' = 0 /\ taken' = <<>> /\ outcome' = 0
    /\ tx_fifo' = Cleared(tx_fifo) /\ rx_fifo' = Cleared(rx_fifo)
    /\ active' = TRUE /\ status' = {}
    /\ wire_out' = <<>> /\ wire_in' = 0
    /\ transfers' = transfers + 1

TXD == Len(tx_fifo) < FifoDepth
RXD == rx_fifo # <<>>

Push ==
    /\ tx_fifo' = Append(tx_fifo, sent + 1) /\ sent' = sent + 1
    /\ UNCHANGED <<job, job_at, taken, outcome, rx_fifo, active, status, wire_out, wire_in, transfers>>

Take ==
    /\ taken' = Append(taken, Head(rx_fifo)) /\ rx_fifo' = Tail(rx_fifo)
    /\ UNCHANGED <<job, job_at, sent, outcome, tx_fifo, active, status, wire_out, wire_in, transfers>>

Go(to) ==
    /\ job_at' = to
    /\ UNCHANGED <<job, sent, taken, outcome, tx_fifo, rx_fifo, active, status, wire_out, wire_in, transfers>>

\* bcm2835_i2c_write(): a wait for room before each byte, then one for DONE.
\* The result is 0, whatever the status.
i2c_push ==
    /\ job_at = "push"
    /\ \/ sent < job.length /\ TXD /\ Push
       \/ sent = job.length /\ Go("wait")

i2c_wait == job_at = "wait" /\ "DONE" \in status /\ Go("idle")

\* bcm2835_i2c_read(): until DONE the FIFO is emptied between two looks at it.
i2c_poll == job_at = "poll" /\ Go(IF "DONE" \in status THEN "stray" ELSE "drain")

i2c_drain ==
    /\ job_at = "drain"
    /\ IF Len(taken) < job.length /\ RXD THEN Take ELSE Go("poll")

\* What came in before DONE is taken, and the outcome made of it.
i2c_stray ==
    /\ job_at = "stray"
    /\ IF Len(taken) < job.length /\ RXD THEN Take
       ELSE /\ outcome' = IF "ERR" \in status THEN -1 ELSE Len(taken)
            /\ job_at' = "idle" /\ status' = status \ {"DONE", "ERR"}
            /\ UNCHANGED <<job, sent, taken, tx_fifo, rx_fifo, active, wire_out, wire_in, transfers>>

\* bcm2835_spi_transaction(): two loops by turns.
spi_tx ==
    /\ job_at = "tx"
    /\ IF TXD /\ sent < job.length THEN Push ELSE Go("rx")

spi_rx ==
    /\ job_at = "rx"
    /\ IF RXD /\ Len(taken) < job.length THEN Take
       ELSE Go(IF sent < job.length \/ Len(taken) < job.length THEN "tx" ELSE "spi_wait")

spi_wait ==
    /\ job_at = "spi_wait" /\ tx_fifo = <<>>
    /\ job_at' = "idle" /\ active' = FALSE
    /\ UNCHANGED <<job, sent, taken, outcome, tx_fifo, rx_fifo, status, wire_out, wire_in, transfers>>

-----------------------------------------------------------------------------
(* The buses                                                               *)

Finished == active' = FALSE /\ status' = status \union {"DONE"}
Goes_on == UNCHANGED <<active, status>>

i2c_sends ==
    /\ active /\ job.kind = "i2c_write" /\ job.answers
    /\ IF Len(wire_out) = job.length
       THEN Finished /\ UNCHANGED <<tx_fifo, wire_out>>
       ELSE /\ tx_fifo # <<>>
            /\ wire_out' = Append(wire_out, Head(tx_fifo)) /\ tx_fifo' = Tail(tx_fifo)
            /\ Goes_on
    /\ UNCHANGED <<job, job_at, sent, taken, outcome, rx_fifo, wire_in, transfers>>

i2c_receives ==
    /\ active /\ job.kind = "i2c_read" /\ job.answers
    /\ IF wire_in = job.length
       THEN Finished /\ UNCHANGED <<rx_fifo, wire_in>>
       ELSE /\ Len(rx_fifo) < FifoDepth
            /\ wire_in' = wire_in + 1 /\ rx_fifo' = Append(rx_fifo, wire_in')
            /\ Goes_on
    /\ UNCHANGED <<job, job_at, sent, taken, outcome, tx_fifo, wire_out, transfers>>

i2c_no_answer ==
    /\ active /\ ~job.answers
    /\ active' = FALSE /\ status' = status \union {"DONE", "ERR"}
    /\ UNCHANGED <<job, job_at, sent, taken, outcome, tx_fifo, rx_fifo, wire_out, wire_in, transfers>>

spi_exchanges ==
    /\ active /\ job.kind = "spi" /\ tx_fifo # <<>> /\ Len(rx_fifo) < FifoDepth
    /\ wire_out' = Append(wire_out, Head(tx_fifo)) /\ tx_fifo' = Tail(tx_fifo)
    /\ wire_in' = wire_in + 1 /\ rx_fifo' = Append(rx_fifo, wire_in')
    /\ UNCHANGED <<job, job_at, sent, taken, outcome, active, status, transfers>>

-----------------------------------------------------------------------------
(* The serial port                                                         *)

\* A byte that finds the FIFO full is lost.
arrive ==
    /\ arrived < MaxArrivals /\ arrived' = arrived + 1
    /\ IF Len(uart_rx) < FifoDepth
       THEN uart_rx' = Append(uart_rx, arrived') /\ UNCHANGED overrun
       ELSE overrun' = overrun \union {arrived'} /\ UNCHANGED uart_rx
    /\ timer' = TRUE
    /\ UNCHANGED <<uart_tx, uart_line, rtim, handler_at, console, uart_text, cr_put, written>>

timeout ==
    /\ timer /\ uart_rx # <<>> /\ handler_at = "none"
    /\ rtim' = TRUE /\ timer' = FALSE
    /\ UNCHANGED <<uart_rx, uart_tx, uart_line, handler_at, console, uart_text, cr_put, written, arrived, overrun>>

uart_interrupt ==
    /\ handler_at = "none" /\ (rtim \/ Len(uart_rx) >= RxLevel)
    /\ handler_at' = "read"
    /\ UNCHANGED <<uart_rx, uart_tx, uart_line, timer, rtim, console, uart_text, cr_put, written, arrived, overrun>>

\* pl011_uart_interrupt_handler(): all that there is; then RTIC is cleared.
uart_read ==
    /\ handler_at = "read"
    /\ IF uart_rx # <<>>
       THEN /\ console' = Append(console, Head(uart_rx)) /\ uart_rx' = Tail(uart_rx)
            /\ UNCHANGED handler_at
       ELSE handler_at' = "clear" /\ UNCHANGED <<console, uart_rx>>
    /\ UNCHANGED <<uart_tx, uart_line, timer, rtim, uart_text, cr_put, written, arrived, overrun>>

uart_clear ==
    /\ handler_at = "clear"
    /\ rtim' = FALSE /\ handler_at' = "none"
    /\ UNCHANGED <<uart_rx, uart_tx, uart_line, timer, console, uart_text, cr_put, written, arrived, overrun>>

\* pl011_uart_putc(): waits while the FIFO is full.
uart_putc(byte) == Len(uart_tx) < FifoDepth /\ uart_tx' = Append(uart_tx, byte)

\* serial_write(), its beginning, and its loop: "\r" is put before each "\n".
write_begin ==
    /\ uart_text = <<>>
    /\ \E n \in 0..(MaxText - Len(written)) : \E s \in [1..n -> {"a", "nl"}] :
          uart_text' = s /\ written' = written \o s
    /\ UNCHANGED <<uart_rx, uart_tx, uart_line, cr_put, timer, rtim, handler_at, console, arrived, overrun>>

write_next ==
    /\ uart_text # <<>>
    /\ IF Head(uart_text) = "nl" /\ ~cr_put
       THEN uart_putc("cr") /\ cr_put' = TRUE /\ UNCHANGED uart_text
       ELSE uart_putc(Head(uart_text)) /\ cr_put' = FALSE /\ uart_text' = Tail(uart_text)
    /\ UNCHANGED <<uart_rx, uart_line, timer, rtim, handler_at, console, written, arrived, overrun>>

uart_sends ==
    /\ uart_tx # <<>>
    /\ uart_line' = Append(uart_line, Head(uart_tx)) /\ uart_tx' = Tail(uart_tx)
    /\ UNCHANGED <<uart_rx, timer, rtim, handler_at, console, uart_text, cr_put, written, arrived, overrun>>

-----------------------------------------------------------------------------
(***************************************************************************)
(* The pins.  Each has three bits in a function register and one in each   *)
(* of the others; a register is the set of its bits that are 1.  The test  *)
(* which_one>MAX_GPIO lets one number too many pass: its bits have no pin. *)
(***************************************************************************)

CONSTANTS
    MAX_GPIO,         \* 54; pins have the numbers below
    PER_FSEL, PER_WORD, \* pins in a function register, 10, and in another, 32
    MaxPinCalls       \* bound

ASSUME PinsAssumption == MAX_GPIO \in Nat /\ {PER_FSEL, PER_WORD} \subseteq Nat \ {0} /\ MaxPinCalls \in Nat

VARIABLES
    gpio_reserved,    \* pins
    gpfsel, gpset, gpfen, gpeds, \* by number: functions, outputs, falling edges
                      \* that are looked for, and that were seen
    pin_input,        \* the pins that are high from outside
    pin_answer,       \* [pin, value] of the last gpio_get_value()
    pin_calls,
    chosen, high, watched, fallen \* history: by pin what was asked for, and seen

gpio_registers == <<gpfsel, gpset, gpfen, gpeds>>
gpio_history == <<chosen, high, watched, fallen>>
gpio_vars == <<gpio_reserved, gpio_registers, pin_input, pin_answer, pin_calls, gpio_history>>
port_vars == <<bus_vars, uart_vars, gpio_vars>>

Valid_pins == 0..MAX_GPIO
Functions_of_pins == {0, 1, 4}     \* GPIO_GPFSEL_INPUT, _OUTPUT, _ALT0
Bits_of_three(function) == CASE function = 0 -> {} [] function = 1 -> {0} [] function = 4 -> {2}

Field(pin) == {3 * (pin % PER_FSEL) + k : k \in 0..2}
Word_of(pin) == pin \div PER_WORD
Bit_of(pin) == pin % PER_WORD

No_answer == [pin |-> -1, value |-> 0]
Counted_call == pin_calls < MaxPinCalls /\ pin_calls' = pin_calls + 1

\* -EBUSY changes nothing, and no driver looks at it.
gpio_request(pin) ==
    /\ gpio_reserved' = gpio_reserved \union {pin}
    /\ UNCHANGED <<gpio_registers, gpio_history>>

gpio_free(pin) ==
    /\ gpio_reserved' = gpio_reserved \ {pin}
    /\ UNCHANGED <<gpio_registers, gpio_history>>

\* The register is read, the field taken out and put in again.
gpio_function_select(pin, function) ==
    /\ gpfsel' = [gpfsel EXCEPT ![pin \div PER_FSEL] =
                    (@ \ Field(pin)) \union {3 * (pin % PER_FSEL) + k : k \in Bits_of_three(function)}]
    /\ chosen' = [chosen EXCEPT ![pin] = function]
    /\ UNCHANGED <<gpio_reserved, gpset, gpfen, gpeds, high, watched, fallen>>

\* A one is written to GPSET or to GPCLR; zeros there do nothing (external).
gpio_set_value(pin, value) ==
    /\ gpset' = [gpset EXCEPT ![Word_of(pin)] =
                    IF value = 1 THEN @ \union {Bit_of(pin)} ELSE @ \ {Bit_of(pin)}]
    /\ high' = IF value = 1 THEN high \union {pin} ELSE high \ {pin}
    /\ UNCHANGED <<gpio_reserved, gpfsel, gpfen, gpeds, chosen, watched, fallen>>

\* The level of a pin: what it was set to if it is an output (external).
Levels(word) ==
    {Bit_of(pin) : pin \in {x \in Valid_pins : Word_of(x) = word /\
        IF gpfsel[x \div PER_FSEL] \intersect Field(x) = {3 * (x % PER_FSEL)}
        THEN Bit_of(x) \in gpset[word] ELSE x \in pin_input}}

gpio_get_value(pin) ==
    /\ pin_answer' = [pin |-> pin, value |-> IF Bit_of(pin) \in Levels(Word_of(pin)) THEN 1 ELSE 0]
    /\ UNCHANGED <<gpio_reserved, gpio_registers, gpio_history>>

gpio_set_falling(pin) ==
    /\ gpfen' = [gpfen EXCEPT ![Word_of(pin)] = @ \union {Bit_of(pin)}]
    /\ watched' = watched \union {pin}
    /\ UNCHANGED <<gpio_reserved, gpfsel, gpset, gpeds, chosen, high, fallen>>

\* A one clears the bit, here too.
gpio_clear_interrupt(pin) ==
    /\ gpeds' = [gpeds EXCEPT ![Word_of(pin)] = @ \ {Bit_of(pin)}]
    /\ fallen' = fallen \ {pin}
    /\ UNCHANGED <<gpio_reserved, gpfsel, gpset, gpfen, chosen, high, watched>>

gpio_call ==
    /\ Counted_call
    /\ \E pin \in Valid_pins :
          \/ gpio_get_value(pin)
          \/ /\ \/ gpio_request(pin) \/ gpio_free(pin)
                \/ \E function \in Functions_of_pins : gpio_function_select(pin, function)
                \/ \E value \in {0, 1} : gpio_set_value(pin, value)
                \/ gpio_set_falling(pin) \/ gpio_clear_interrupt(pin)
             /\ pin_answer' = No_answer
    /\ UNCHANGED pin_input

\* From outside.
pin_changes ==
    /\ Counted_call
    /\ \E pin \in Valid_pins \ {MAX_GPIO} :
          IF pin \in pin_input
          THEN /\ pin_input' = pin_input \ {pin}
               /\ gpeds' = [gpeds EXCEPT ![Word_of(pin)] = @ \union ({Bit_of(pin)} \intersect gpfen[Word_of(pin)])]
               /\ fallen' = fallen \union ({pin} \intersect watched)
          ELSE pin_input' = pin_input \union {pin} /\ UNCHANGED <<gpeds, fallen>>
    /\ pin_answer' = No_answer
    /\ UNCHANGED <<gpio_reserved, gpfsel, gpset, gpfen, chosen, high, watched>>

PinsInit ==
    /\ gpio_reserved = {}
    /\ gpfsel = [r \in 0..(MAX_GPIO \div PER_FSEL) |-> {}]
    /\ gpset = [r \in 0..(MAX_GPIO \div PER_WORD) |-> {}] /\ gpfen = gpset /\ gpeds = gpset
    /\ pin_input = {} /\ pin_answer = No_answer /\ pin_calls = 0
    /\ chosen = [pin \in Valid_pins |-> 0] /\ high = {} /\ watched = {} /\ fallen = {}

PinsNext == gpio_call \/ pin_changes

-----------------------------------------------------------------------------

PortsInit ==
    /\ job = [kind |-> "none", length |-> 0, answers |-> TRUE] /\ job_at = "idle"
    /\ sent = 0 /\ taken = <<>> /\ outcome = 0
    /\ tx_fifo = <<>> /\ rx_fifo = <<>> /\ active = FALSE /\ status = {}
    /\ wire_out = <<>> /\ wire_in = 0 /\ transfers = 0
    /\ uart_rx = <<>> /\ uart_tx = <<>> /\ uart_line = <<>>
    /\ timer = FALSE /\ rtim = FALSE /\ handler_at = "none"
    /\ console = <<>> /\ uart_text = <<>> /\ cr_put = FALSE /\ written = <<>> /\ arrived = 0 /\ overrun = {}
    /\ PinsInit

BusNext ==
    \/ begin_transfer \/ i2c_push \/ i2c_wait \/ i2c_poll \/ i2c_drain \/ i2c_stray
    \/ spi_tx \/ spi_rx \/ spi_wait
    \/ i2c_sends \/ i2c_receives \/ i2c_no_answer \/ spi_exchanges

UartNext ==
    \/ arrive \/ timeout \/ uart_interrupt \/ uart_read \/ uart_clear
    \/ write_begin \/ write_next \/ uart_sends

PortsNext ==
    \/ BusNext /\ UNCHANGED <<uart_vars, gpio_vars>>
    \/ UartNext /\ UNCHANGED <<bus_vars, gpio_vars>>
    \/ PinsNext /\ UNCHANGED <<bus_vars, uart_vars>>

PortsSpec == PortsInit /\ [][PortsNext]_port_vars

-----------------------------------------------------------------------------
(* Properties                                                              *)

Numbers_to(n) == [k \in 1..n |-> k]
Rises(s) == \A i, j \in DOMAIN s : i < j => s[i] < s[j]

\* Where the k-th character of a text is on the line: "\r"s count too.
Place(s, k) == k + Cardinality({j \in 1..k : s[j] = "nl"})

\* A transfer that is over has moved all its bytes in order and left none
\* behind, or found no device: then a read says so (a write never does).
\* Only a write longer than the FIFO to a device that is not there waits for
\* room for ever.
TransfersRight ==
    /\ job_at = "idle" /\ job.answers =>
         /\ job.kind = "i2c_read" => outcome = job.length
         /\ job.kind \in {"i2c_read", "spi"} => taken = Numbers_to(job.length)
         /\ job.kind \in {"i2c_write", "spi"} => wire_out = Numbers_to(job.length)
         /\ rx_fifo = <<>> /\ tx_fifo = <<>>
    /\ job_at = "idle" /\ job.kind = "i2c_read" /\ ~job.answers => outcome = -1 /\ taken = <<>>
    /\ job_at = "push" /\ sent < job.length /\ ~TXD /\ ~active =>
         ~job.answers /\ job.length > FifoDepth
    /\ job_at \in {"tx", "rx", "spi_wait"} => sent = Len(taken) + Len(rx_fifo) + Len(tx_fifo)

\* Every byte that arrived is in the console or the FIFO, in order, or was
\* lost to a full FIFO; while one is in the FIFO an interrupt is on its way.
ReceivesRight ==
    /\ Rises(console \o uart_rx) /\ Range(console \o uart_rx) = (1..arrived) \ overrun
    /\ uart_rx # <<>> =>
         handler_at = "read" \/ timer \/ (rtim /\ handler_at = "none") \/ Len(uart_rx) >= RxLevel

\* The line has got what was written, a "\r" before each "\n", and no other
\* byte: the k-th character stands behind k - 1 and the "\r"s up to it.
SendsRight ==
    LET out == uart_line \o uart_tx
        done == Len(written) - Len(uart_text)
    IN /\ Len(out) = Place(written, done) + (IF cr_put THEN 1 ELSE 0)
       /\ \A k \in 1..done :
            /\ out[Place(written, k)] = written[k]
            /\ written[k] = "nl" => out[Place(written, k) - 1] = "cr"
       /\ cr_put => out[Len(out)] = "cr" /\ uart_text # <<>> /\ Head(uart_text) = "nl"

\* gpio.c: every pin has the function that was chosen for it last, whatever
\* was chosen for its neighbours in the register, its output, and the edges
\* that are looked for and that nobody has cleared; a value that is read is
\* the pin's own.
PinsRight ==
    /\ \A r \in DOMAIN gpfsel : gpfsel[r] =
          UNION {{3 * (pin % PER_FSEL) + k : k \in Bits_of_three(chosen[pin])} :
                    pin \in {x \in Valid_pins : x \div PER_FSEL = r}}
    /\ \A r \in DOMAIN gpset :
          LET Of_word(pins) == {pin \in Valid_pins : Word_of(pin) = r /\ pin \in pins}
          IN /\ gpset[r] = {Bit_of(pin) : pin \in Of_word(high)}
             /\ gpfen[r] = {Bit_of(pin) : pin \in Of_word(watched)}
             /\ gpeds[r] = {Bit_of(pin) : pin \in Of_word(fallen)}
    /\ pin_answer # No_answer =>
          (pin_answer.value = 1 <=>
             pin_answer.pin \in (IF chosen[pin_answer.pin] = 1 THEN high ELSE pin_input))

\* No byte is lost, doubled or left behind between a driver and its hardware
\* (bcm2835_i2c.c, bcm2835_spi.c, pl011_uart.c); and a pin does what it was
\* told (gpio.c).
PortsRight == TransfersRight /\ ReceivesRight /\ SendsRight /\ PinsRight

=============================================================================
