------------------------------- MODULE BringUp -------------------------------
(***************************************************************************)
(* How main brings the display up (apps/doomtime/src/display.cpp, init and *)
(* what it calls) before bt_t::init lets the first GATT write in.  Each    *)
(* function of the source is the sequence of the steps it takes, a step a  *)
(* level on a pin, a blocking transfer, a semaphore or the start of the    *)
(* task; delays are left out.  The panel is what the transfers are for: it *)
(* hears a byte only when it is selected and out of reset, and takes it    *)
(* for a command or for data by the level of PIN_LCD_DATA_COMMAND.         *)
(***************************************************************************)
EXTENDS Integers, Sequences

CONSTANTS
  DISPLAY_WIDTH, DISPLAY_HEIGHT,  \* the panel (240, 240)
  SCREEN_WIDTH, SCREEN_HEIGHT,    \* a frame on the panel (192, 96)
  BACKGROUND,                     \* rows of background_, pixels of each (48)
  COPIES,                         \* times each is sent, both ways (5)
  RING_BUFFER_SIZE

ASSUME BringUpAssumption ==
  /\ {DISPLAY_WIDTH, DISPLAY_HEIGHT, SCREEN_WIDTH, SCREEN_HEIGHT, BACKGROUND,
      COPIES, RING_BUFFER_SIZE} \subseteq Nat \ {0}
  /\ SCREEN_WIDTH < DISPLAY_WIDTH /\ SCREEN_HEIGHT < DISPLAY_HEIGHT
  /\ DISPLAY_WIDTH = COPIES * BACKGROUND
  /\ DISPLAY_HEIGHT = DISPLAY_WIDTH

VARIABLES
  pc,                   \* steps of main taken so far
  pin,                  \* the levels of the pins of the panel
  enabled,              \* hal_spi_enable has been called
  sem,                  \* tokens of the semaphores, None before sem_init
  task, serving,        \* the display task and the event loop run
  command, settings,    \* the panel: last command, commands since its reset
  rows, cols,           \* the panel: window set by CASET and by RASET
  stream                \* the panel: what RAMWR began to write, and how far

vars == <<pc, pin, enabled, sem, task, serving, command, settings, rows, cols,
          stream>>

None == -1

ROW_OFFSET == DISPLAY_HEIGHT \div 2 - SCREEN_HEIGHT \div 2
COL_OFFSET == DISPLAY_WIDTH \div 2 - SCREEN_WIDTH \div 2

------------------------------------------------------------------------------
(* The source, function by function *)

hal_gpio_write(name, level)   == <<[step |-> "pin", name |-> name, level |-> level]>>
hal_spi_txrx(meant, what)     == <<[step |-> "send", meant |-> meant, what |-> what]>>
sem_init(name, tokens)        == <<[step |-> "sem", name |-> name, tokens |-> tokens]>>
Call(name)                    == <<[step |-> name]>>

spi_tx_cmd(cmd) == hal_gpio_write("DC", 0) \o hal_spi_txrx("command", cmd)

spi_tx_data_as_it_is(data) == hal_spi_txrx("data", data)
spi_tx_data(data) == hal_gpio_write("DC", 1) \o hal_spi_txrx("data", data)

fill_begin_end(begin, end) == <<begin, end>>

init_gpio == hal_gpio_write("DC", 1) \o hal_gpio_write("RESET", 1)
             \o hal_gpio_write("CS", 1)

hw_rst == hal_gpio_write("RESET", 0) \o hal_gpio_write("RESET", 1)

sw_rst == hal_gpio_write("CS", 0) \o hal_gpio_write("DC", 0)
          \o spi_tx_cmd("SOFT_RST")

sleep_out    == spi_tx_cmd("SLEEP_OUT")
color_mode   == spi_tx_cmd("COLMOD") \o spi_tx_data("RGB444")
inversion_on == spi_tx_cmd("INVON")
display_on   == spi_tx_cmd("DISPON")

(* MV: CASET then counts the pixels of a column, RASET the columns. *)
set_memory_data_access == spi_tx_cmd("MADCTL") \o spi_tx_data("MV")

init_caset_raset ==
  spi_tx_cmd("CASET")
  \o spi_tx_data(fill_begin_end(ROW_OFFSET, ROW_OFFSET + SCREEN_HEIGHT - 1))
  \o spi_tx_cmd("RASET")
  \o spi_tx_data(fill_begin_end(COL_OFFSET, COL_OFFSET + SCREEN_WIDTH))

(* Five times across, every row of background_ five times down. *)
Background_four_down ==
  [n \in 1 .. COPIES * BACKGROUND * (COPIES - 1) |->
     Head(hal_spi_txrx("data", BACKGROUND))]
Background == [n \in 1 .. COPIES * BACKGROUND * COPIES |->
                 Head(hal_spi_txrx("data", BACKGROUND))]

clear_screen ==
  spi_tx_cmd("CASET") \o spi_tx_data(fill_begin_end(0, DISPLAY_HEIGHT))
  \o spi_tx_cmd("RASET") \o spi_tx_data(fill_begin_end(0, DISPLAY_WIDTH))
  \o spi_tx_cmd("RAMWR") \o hal_gpio_write("DC", 1) \o Background

init_spi == Call("enable")

Semaphores_late == sem_init("consumer", 0)
Semaphores == sem_init("producer", RING_BUFFER_SIZE) \o sem_init("consumer", 0)

init == sem_init("spi", 0) \o init_spi \o init_gpio \o hw_rst \o sw_rst
        \o sleep_out \o color_mode \o inversion_on \o display_on
        \o set_memory_data_access \o clear_screen \o init_caset_raset
        \o Semaphores \o init_caset_raset \o Call("task")

(* bt_t::init registers the handlers; they run in the event loop. *)
main == init \o Call("serve")

------------------------------------------------------------------------------
(* One step of main *)

Instruction == main[pc + 1]

Before(step) == /\ pc < Len(main)
                /\ Instruction.step = step
                /\ pc' = pc + 1

Panel == <<command, settings, rows, cols, stream>>

WritePin ==
  /\ Before("pin")
  /\ pin' = [pin EXCEPT ![Instruction.name] = Instruction.level]
  /\ UNCHANGED <<enabled, sem, task, serving, Panel>>

(* The panel takes a command: a reset forgets the settings, RAMWR begins at the
   start of the window.                                                       *)
PanelCommand(cmd) ==
  /\ command' = cmd
  /\ settings' = IF cmd = "SOFT_RST" THEN {} ELSE settings \union {cmd}
  /\ stream' = IF cmd = "RAMWR" THEN [rows |-> rows, cols |-> cols, pixels |-> 0]
                                ELSE stream
  /\ UNCHANGED <<rows, cols>>

(* The panel takes data, for the command it took last. *)
PanelData(data) ==
  /\ rows' = IF command = "CASET" THEN data ELSE rows
  /\ cols' = IF command = "RASET" THEN data ELSE cols
  /\ stream' = IF command = "RAMWR" THEN [stream EXCEPT !.pixels = @ + data]
                                    ELSE stream
  /\ UNCHANGED <<command, settings>>

Transfer ==
  /\ Before("send")
  /\ IF pin["DC"] = 0 THEN PanelCommand(Instruction.what)
                      ELSE PanelData(Instruction.what)
  /\ UNCHANGED <<pin, enabled, sem, task, serving>>

EnableSpi ==
  /\ Before("enable")
  /\ enabled' = TRUE
  /\ UNCHANGED <<pin, sem, task, serving, Panel>>

SemInit ==
  /\ Before("sem")
  /\ sem' = [sem EXCEPT ![Instruction.name] = Instruction.tokens]
  /\ UNCHANGED <<pin, enabled, task, serving, Panel>>

StartTask ==
  /\ Before("task")
  /\ task' = TRUE
  /\ UNCHANGED <<pin, enabled, sem, serving, Panel>>

Serve ==
  /\ Before("serve")
  /\ serving' = TRUE
  /\ UNCHANGED <<pin, enabled, sem, task, Panel>>

Init ==
  /\ pc = 0
  /\ pin \in [{"DC", "RESET", "CS"} -> {0, 1}]      \* whatever they float at
  /\ enabled = FALSE
  /\ sem = [s \in {"spi", "producer", "consumer"} |-> None]
  /\ task = FALSE /\ serving = FALSE
  /\ command = "none" /\ settings = {}
  /\ rows = <<0, 0>> /\ cols = <<0, 0>>
  /\ stream = [rows |-> rows, cols |-> cols, pixels |-> 0]

Next == WritePin \/ Transfer \/ EnableSpi \/ SemInit \/ StartTask \/ Serve

Spec == Init /\ [][Next]_vars

------------------------------------------------------------------------------
(* Properties *)

(* Whatever is sent is heard, and for what it is meant: the bus is enabled, the
   panel selected and out of reset, the level of the pin the one that the
   functions called before have left there.                                  *)
Heard ==
  pc < Len(main) /\ Instruction.step = "send"
    => /\ enabled /\ pin["CS"] = 0 /\ pin["RESET"] = 1
       /\ pin["DC"] = (IF Instruction.meant = "command" THEN 0 ELSE 1)

(* The cell of the panel has been written by the stream of pixels: one column
   of the window after the other, both ends of the window included.          *)
Written(row, col) ==
  LET height == stream.rows[2] - stream.rows[1] + 1
  IN  (col - stream.cols[1]) * height + (row - stream.rows[1]) < stream.pixels

(* README.md:226, "the last column is missing from the background": clear_screen
   sets a window one pixel too large either way, sends as many pixels as the
   panel has, and leaves all of the last column but its first pixel, and
   nothing else.                                                              *)
LastColumnMissing ==
  task => \A row \in 0 .. DISPLAY_HEIGHT - 1, col \in 0 .. DISPLAY_WIDTH - 1 :
            Written(row, col) <=> col < DISPLAY_WIDTH - 1 \/ row = 0

(* When the display task starts, which it does at once, its semaphores are there
   and the panel is as the pipeline needs it: set up since its last reset, the
   window as high as one column sent, and wide enough for a frame.           *)
TaskFindsPanel ==
  task => /\ sem = [spi |-> 0, producer |-> RING_BUFFER_SIZE, consumer |-> 0]
          /\ {"SLEEP_OUT", "COLMOD", "DISPON", "MADCTL"} \subseteq settings
          /\ rows[2] - rows[1] + 1 = SCREEN_HEIGHT
          /\ cols[2] - cols[1] + 1 >= SCREEN_WIDTH
          /\ pin["DC"] = 1
==============================================================================
