----------------------------- MODULE PanelProofs -----------------------------
(***************************************************************************)
(* What the panel is sent: the program that sets it up, step by step, for  *)
(* every panel and background that tiles it (BringUp), and the pixels of a *)
(* column, for every palette, column and (even) number of colours (Lut).   *)
(***************************************************************************)
EXTENDS BringUp, Lut, SequenceTheorems, TLAPS

------------------------------------------------------------------------------
(* The program of main as one numbered list of steps *)

(* A step of each kind, and the words that are sent. *)
Pin(name, level)  == [step |-> "pin", name |-> name, level |-> level]
Say(cmd)          == [step |-> "send", meant |-> "command", what |-> cmd]
Give(data)        == [step |-> "send", meant |-> "data", what |-> data]
Sem(name, tokens) == [step |-> "sem", name |-> name, tokens |-> tokens]
Do(name)          == [step |-> name]

Words == {"SOFT_RST", "SLEEP_OUT", "COLMOD", "RGB444", "INVON", "DISPON",
          "MADCTL", "MV", "CASET", "RASET", "RAMWR"}

Steps ==
  [step : {"pin"}, name : {"DC", "RESET", "CS"}, level : {0, 1}]
  \union [step : {"send"}, meant : {"command", "data"},
          what : Words \union Int \union (Int \X Int)]
  \union [step : {"sem"}, name : {"spi", "producer", "consumer"}, tokens : Int]
  \union [step : {"enable", "task", "serve"}]

(* The window of the pipeline. *)
Rows == <<ROW_OFFSET, ROW_OFFSET + SCREEN_HEIGHT - 1>>
Cols == <<COL_OFFSET, COL_OFFSET + SCREEN_WIDTH>>

(* The steps before the background is sent, and those after. *)
Setup == <<
  Sem("spi", 0), Do("enable"), Pin("DC", 1), Pin("RESET", 1), Pin("CS", 1),
  Pin("RESET", 0), Pin("RESET", 1), Pin("CS", 0), Pin("DC", 0),
  Pin("DC", 0), Say("SOFT_RST"), Pin("DC", 0), Say("SLEEP_OUT"),
  Pin("DC", 0), Say("COLMOD"), Pin("DC", 1), Give("RGB444"),
  Pin("DC", 0), Say("INVON"), Pin("DC", 0), Say("DISPON"),
  Pin("DC", 0), Say("MADCTL"), Pin("DC", 1), Give("MV"),
  Pin("DC", 0), Say("CASET"), Pin("DC", 1), Give(<<0, DISPLAY_HEIGHT>>),
  Pin("DC", 0), Say("RASET"), Pin("DC", 1), Give(<<0, DISPLAY_WIDTH>>),
  Pin("DC", 0), Say("RAMWR"), Pin("DC", 1)>>

Rest == <<
  Pin("DC", 0), Say("CASET"), Pin("DC", 1), Give(Rows),
  Pin("DC", 0), Say("RASET"), Pin("DC", 1), Give(Cols),
  Sem("producer", RING_BUFFER_SIZE), Sem("consumer", 0),
  Pin("DC", 0), Say("CASET"), Pin("DC", 1), Give(Rows),
  Pin("DC", 0), Say("RASET"), Pin("DC", 1), Give(Cols),
  Do("task"), Do("serve")>>

(* Rows of background_ that clear_screen sends, and the steps taken by then. *)
Transfers == COPIES * BACKGROUND * COPIES
Cleared   == 36 + Transfers

(* The i-th step of main. *)
Script(i) == IF i <= 36 THEN Setup[i]
             ELSE IF i <= Cleared THEN Give(BACKGROUND)
             ELSE Rest[i - Cleared]

(* s are the steps of main after the m-th, up to the k-th. *)
Fits(s, m, k) == /\ s \in Seq(Steps) /\ Len(s) = k - m
                 /\ \A i \in 1 .. k - m : s[i] = Script(m + i)

(* Both are counts. *)
LEMMA TransfersNat == Transfers \in Nat /\ Cleared \in Nat
  BY BringUpAssumption DEF Transfers, Cleared

(* What the functions of the source are put together from are steps. *)
LEMMA Pieces ==
  /\ \A name \in {"DC","RESET","CS"}, level \in {0,1} : Pin(name, level) \in Steps
  /\ \A cmd \in Words : Say(cmd) \in Steps
  /\ \A data \in Words \union Int \union (Int \X Int) : Give(data) \in Steps
  /\ \A name \in {"spi", "producer", "consumer"}, n \in Int : Sem(name, n) \in Steps
  /\ \A name \in {"enable", "task", "serve"} : Do(name) \in Steps
 BY DEF Pin, Say, Give, Sem, Do, Steps

(* One step is in its place, and pieces in their places are one piece. *)
LEMMA FitsOne ==
  ASSUME NEW m \in Nat, NEW k \in Nat, k = m + 1, NEW a \in Steps, Script(k) = a
  PROVE  Fits(<<a>>, m, k)
<1>1. <<a>> \in Seq(Steps) /\ Len(<<a>>) = 1 /\ <<a>>[1] = a
  OBVIOUS
<1>2. k - m = 1 /\ m + 1 = k /\ \A i \in 1 .. 1 : i = 1
  OBVIOUS
<1>3. \A i \in 1 .. 1 : <<a>>[i] = Script(m + i)
  BY <1>1, <1>2, Zenon
<1> QED
  BY <1>1, <1>2, <1>3, Zenon DEF Fits

LEMMA FitsConcat ==
  ASSUME NEW m \in Nat, NEW k \in Nat, NEW l \in Nat, m <= k, k <= l,
         NEW s, NEW t, Fits(s, m, k), Fits(t, k, l)
  PROVE  Fits(s \o t, m, l)
<1>1. /\ s \in Seq(Steps) /\ Len(s) = k - m
      /\ \A i \in 1 .. k - m : s[i] = Script(m + i)
  BY Zenon DEF Fits
<1>2. /\ t \in Seq(Steps) /\ Len(t) = l - k
      /\ \A i \in 1 .. l - k : t[i] = Script(k + i)
  BY Zenon DEF Fits
<1>3. /\ s \o t \in Seq(Steps) /\ Len(s \o t) = l - m
      /\ \A i \in 1 .. l - m :
           (s \o t)[i] = IF i <= k - m THEN s[i] ELSE t[i - (k - m)]
  <2>1. /\ s \o t \in Seq(Steps) /\ Len(s \o t) = Len(s) + Len(t)
        /\ \A i \in 1 .. Len(s) + Len(t) :
             (s \o t)[i] = IF i <= Len(s) THEN s[i] ELSE t[i - Len(s)]
    BY <1>1, <1>2, ConcatProperties, Zenon
  <2>2. Len(s) + Len(t) = l - m
    BY <1>1, <1>2
  <2> QED
    BY <1>1, <2>1, <2>2, Zenon
<1>4. ASSUME NEW i \in 1 .. l - m PROVE (s \o t)[i] = Script(m + i)
  <2>1. CASE i <= k - m
    BY <1>1, <1>3, <2>1
  <2>2. CASE ~(i <= k - m)
    <3>1. i - (k - m) \in 1 .. l - k /\ k + (i - (k - m)) = m + i
      BY <2>2
    <3> QED
      BY <1>2, <1>3, <2>2, <3>1
  <2> QED
    BY <2>1, <2>2, Zenon
<1> QED
  BY <1>3, <1>4, Zenon DEF Fits

(* So are spi_tx_cmd and spi_tx_data, wherever they are called. *)
LEMMA FitsCommand ==
  ASSUME NEW m \in Nat, NEW k \in Nat, NEW l \in Nat, k = m + 1, l = k + 1,
         NEW cmd, cmd \in Words, Script(k) = Pin("DC", 0), Script(l) = Say(cmd)
  PROVE  Fits(spi_tx_cmd(cmd), m, l)
<1>1. spi_tx_cmd(cmd) = <<Pin("DC", 0)>> \o <<Say(cmd)>>
  BY DEF spi_tx_cmd, hal_gpio_write, hal_spi_txrx, Pin, Say
<1>2. Pin("DC", 0) \in Steps /\ Say(cmd) \in Steps
  BY Pieces
<1>3. Fits(<<Pin("DC", 0)>>, m, k) /\ Fits(<<Say(cmd)>>, k, l)
  BY <1>2, FitsOne
<1> QED
  BY <1>1, <1>3, FitsConcat

LEMMA FitsData ==
  ASSUME NEW m \in Nat, NEW k \in Nat, NEW l \in Nat, k = m + 1, l = k + 1,
         NEW data, data \in Words \union Int \union (Int \X Int),
         Script(k) = Pin("DC", 1), Script(l) = Give(data)
  PROVE  Fits(spi_tx_data(data), m, l)
<1>1. spi_tx_data(data) = <<Pin("DC", 1)>> \o <<Give(data)>>
  BY DEF spi_tx_data, hal_gpio_write, hal_spi_txrx, Pin, Give
<1>2. Pin("DC", 1) \in Steps /\ Give(data) \in Steps
  BY Pieces
<1>3. Fits(<<Pin("DC", 1)>>, m, k) /\ Fits(<<Give(data)>>, k, l)
  BY <1>2, FitsOne
<1> QED
  BY <1>1, <1>3, FitsConcat

(* What the script says, part by part. *)
LEMMA ScriptIs ==
  /\ \A i \in 1 .. 36 : Script(i) = Setup[i]
  /\ \A i \in 1 .. Transfers : Script(36 + i) = Give(BACKGROUND)
  /\ \A i \in 1 .. 20 : Script(Cleared + i) = Rest[i]
<1>1. \A i \in 1 .. 36 : Script(i) = Setup[i]
  BY DEF Script
<1>2. \A i \in 1 .. Transfers : Script(36 + i) = Give(BACKGROUND)
  BY TransfersNat DEF Script, Cleared
<1>3. \A i \in 1 .. 20 : Script(Cleared + i) = Rest[i]
  <2>1. ASSUME NEW i \in 1 .. 20 PROVE Script(Cleared + i) = Rest[i]
    <3>1. Cleared + i > 36 /\ Cleared + i > Cleared /\ (Cleared + i) - Cleared = i
      BY TransfersNat DEF Cleared
    <3>2. ~(Cleared + i <= 36) /\ ~(Cleared + i <= Cleared)
      BY <3>1, TransfersNat
    <3> QED
      BY <3>1, <3>2, Zenon DEF Script
  <2> QED
    BY <2>1
<1> QED
  BY <1>1, <1>2, <1>3

(* The functions that init calls, in the order of their calls. *)
UpToReset == sem_init("spi", 0) \o init_spi \o init_gpio \o hw_rst \o sw_rst

LEMMA FitsStart == Fits(UpToReset, 0, 11)
<1>1. /\ sem_init("spi", 0) = <<Sem("spi", 0)>> /\ init_spi = <<Do("enable")>>
      /\ init_gpio = <<Pin("DC", 1)>> \o <<Pin("RESET", 1)>> \o <<Pin("CS", 1)>>
      /\ hw_rst = <<Pin("RESET", 0)>> \o <<Pin("RESET", 1)>>
      /\ sw_rst = <<Pin("CS", 0)>> \o <<Pin("DC", 0)>> \o spi_tx_cmd("SOFT_RST")
  BY DEF sem_init, init_spi, init_gpio, hw_rst, sw_rst, hal_gpio_write, Call, Sem, Do, Pin
<1>2. /\ Fits(<<Sem("spi", 0)>>, 0, 1) /\ Fits(<<Do("enable")>>, 1, 2)
      /\ Fits(<<Pin("DC", 1)>>, 2, 3) /\ Fits(<<Pin("RESET", 1)>>, 3, 4)
      /\ Fits(<<Pin("CS", 1)>>, 4, 5) /\ Fits(<<Pin("RESET", 0)>>, 5, 6)
      /\ Fits(<<Pin("RESET", 1)>>, 6, 7) /\ Fits(<<Pin("CS", 0)>>, 7, 8)
      /\ Fits(<<Pin("DC", 0)>>, 8, 9)
  <2>1. /\ Script(1) = Sem("spi", 0) /\ Script(2) = Do("enable")
        /\ Script(3) = Pin("DC", 1) /\ Script(4) = Pin("RESET", 1)
        /\ Script(5) = Pin("CS", 1) /\ Script(6) = Pin("RESET", 0)
        /\ Script(7) = Pin("RESET", 1) /\ Script(8) = Pin("CS", 0)
        /\ Script(9) = Pin("DC", 0)
    BY ScriptIs DEF Setup
  <2>2. /\ Sem("spi", 0) \in Steps /\ Do("enable") \in Steps
        /\ \A name \in {"DC", "RESET", "CS"}, level \in {0, 1} : Pin(name, level) \in Steps
    BY Pieces
  <2> QED
    BY <2>1, <2>2, FitsOne
<1>3. Fits(spi_tx_cmd("SOFT_RST"), 9, 11)
  <2>1. Script(10) = Pin("DC", 0) /\ Script(11) = Say("SOFT_RST")
    BY ScriptIs DEF Setup
  <2> QED
    BY <2>1, FitsCommand DEF Words
<1>4. Fits(init_gpio, 2, 5) /\ Fits(hw_rst, 5, 7)
  BY <1>1, <1>2, FitsConcat
<1>5. Fits(sw_rst, 7, 11)
  BY <1>1, <1>2, <1>3, FitsConcat
<1>6. Fits(sem_init("spi", 0) \o init_spi, 0, 2)
  BY <1>1, <1>2, FitsConcat
<1>7. Fits(sem_init("spi", 0) \o init_spi \o init_gpio, 0, 5)
  BY <1>4, <1>6, FitsConcat
<1>8. Fits(sem_init("spi", 0) \o init_spi \o init_gpio \o hw_rst, 0, 7)
  BY <1>4, <1>7, FitsConcat
<1> QED
  BY <1>5, <1>8, FitsConcat DEF UpToReset

UpToSettings == UpToReset \o sleep_out \o color_mode \o inversion_on \o display_on \o set_memory_data_access

LEMMA FitsSettings == Fits(UpToSettings, 0, 25)
<1>1. /\ Fits(sleep_out, 11, 13) /\ Fits(spi_tx_cmd("COLMOD"), 13, 15)
      /\ Fits(inversion_on, 17, 19) /\ Fits(display_on, 19, 21)
      /\ Fits(spi_tx_cmd("MADCTL"), 21, 23)
  <2>1. /\ Script(12) = Pin("DC", 0) /\ Script(13) = Say("SLEEP_OUT")
        /\ Script(14) = Pin("DC", 0) /\ Script(15) = Say("COLMOD")
        /\ Script(18) = Pin("DC", 0) /\ Script(19) = Say("INVON")
        /\ Script(20) = Pin("DC", 0) /\ Script(21) = Say("DISPON")
        /\ Script(22) = Pin("DC", 0) /\ Script(23) = Say("MADCTL")
    BY ScriptIs DEF Setup
  <2> QED
    BY <2>1, FitsCommand DEF Words, sleep_out, inversion_on, display_on
<1>2. /\ Fits(spi_tx_data("RGB444"), 15, 17) /\ Fits(spi_tx_data("MV"), 23, 25)
  <2>1. /\ Script(16) = Pin("DC", 1) /\ Script(17) = Give("RGB444")
        /\ Script(24) = Pin("DC", 1) /\ Script(25) = Give("MV")
    BY ScriptIs DEF Setup
  <2> QED
    BY <2>1, FitsData DEF Words
<1>3. Fits(color_mode, 13, 17) /\ Fits(set_memory_data_access, 21, 25)
  BY <1>1, <1>2, FitsConcat DEF color_mode, set_memory_data_access
<1>4. Fits(UpToReset \o sleep_out, 0, 13)
  BY FitsStart, <1>1, FitsConcat
<1>5. Fits(UpToReset \o sleep_out \o color_mode, 0, 17)
  BY <1>3, <1>4, FitsConcat
<1>6. Fits(UpToReset \o sleep_out \o color_mode \o inversion_on, 0, 19)
  BY <1>1, <1>5, FitsConcat
<1>7. Fits(UpToReset \o sleep_out \o color_mode \o inversion_on \o display_on, 0, 21)
  BY <1>1, <1>6, FitsConcat
<1> QED
  BY <1>3, <1>7, FitsConcat DEF UpToSettings

LEMMA FitsClear == Fits(clear_screen, 25, Cleared)
<1>1. /\ Fits(spi_tx_cmd("CASET"), 25, 27) /\ Fits(spi_tx_cmd("RASET"), 29, 31)
      /\ Fits(spi_tx_cmd("RAMWR"), 33, 35)
  <2>1. /\ Script(26) = Pin("DC", 0) /\ Script(27) = Say("CASET")
        /\ Script(30) = Pin("DC", 0) /\ Script(31) = Say("RASET")
        /\ Script(34) = Pin("DC", 0) /\ Script(35) = Say("RAMWR")
    BY ScriptIs DEF Setup
  <2> QED
    BY <2>1, FitsCommand DEF Words
<1>2. /\ Fits(spi_tx_data(fill_begin_end(0, DISPLAY_HEIGHT)), 27, 29)
      /\ Fits(spi_tx_data(fill_begin_end(0, DISPLAY_WIDTH)), 31, 33)
  <2>1. /\ Script(28) = Pin("DC", 1) /\ Script(29) = Give(<<0, DISPLAY_HEIGHT>>)
        /\ Script(32) = Pin("DC", 1) /\ Script(33) = Give(<<0, DISPLAY_WIDTH>>)
    BY ScriptIs DEF Setup
  <2>2. <<0, DISPLAY_HEIGHT>> \in Int \X Int /\ <<0, DISPLAY_WIDTH>> \in Int \X Int
    BY BringUpAssumption
  <2>3. Fits(spi_tx_data(<<0, DISPLAY_HEIGHT>>), 27, 29)
    BY <2>1, <2>2, FitsData
  <2>4. Fits(spi_tx_data(<<0, DISPLAY_WIDTH>>), 31, 33)
    BY <2>1, <2>2, FitsData
  <2> QED
    BY <2>3, <2>4 DEF fill_begin_end
<1>3. Fits(hal_gpio_write("DC", 1), 35, 36)
  <2>1. Script(36) = Pin("DC", 1)
    BY ScriptIs DEF Setup
  <2>2. Fits(<<Pin("DC", 1)>>, 35, 36)
    BY <2>1, Pieces, FitsOne
  <2> QED
    BY <2>2 DEF hal_gpio_write, Pin
<1>4. Fits(Background, 36, Cleared)
  <2>1. Background = [i \in 1 .. Transfers |-> Give(BACKGROUND)]
    BY DEF Background, Transfers, hal_spi_txrx, Give
  <2>2. Give(BACKGROUND) \in Steps
    <3>1. BACKGROUND \in Words \union Int \union (Int \X Int)
      BY BringUpAssumption
    <3> QED
      BY <3>1, Pieces, Zenon
  <2>3. Background \in Seq(Steps) /\ Len(Background) = Transfers
    BY <2>1, <2>2, TransfersNat
  <2>4. \A i \in 1 .. Transfers : Background[i] = Script(36 + i)
    BY <2>1, ScriptIs
  <2>5. Cleared - 36 = Transfers
    BY TransfersNat DEF Cleared
  <2> QED
    BY <2>3, <2>4, <2>5, Zenon DEF Fits
<1>5. 36 <= Cleared /\ Cleared \in Nat
  BY TransfersNat DEF Cleared
<1> DEFINE a == spi_tx_cmd("CASET") \o spi_tx_data(fill_begin_end(0, DISPLAY_HEIGHT))
           b == a \o spi_tx_cmd("RASET")
           c == b \o spi_tx_data(fill_begin_end(0, DISPLAY_WIDTH))
           d == c \o spi_tx_cmd("RAMWR")
           e == d \o hal_gpio_write("DC", 1)
<1>6. Fits(a, 25, 29)
  BY <1>1, <1>2, FitsConcat
<1>7. Fits(b, 25, 31)
  BY <1>1, <1>6, FitsConcat
<1>8. Fits(c, 25, 33)
  BY <1>2, <1>7, FitsConcat
<1>9. Fits(d, 25, 35)
  BY <1>1, <1>8, FitsConcat
<1>10. Fits(e, 25, 36)
  BY <1>3, <1>9, FitsConcat
<1>11. Fits(e \o Background, 25, Cleared)
  BY <1>4, <1>5, <1>10, FitsConcat
<1> QED
  BY <1>11 DEF clear_screen

LEMMA FitsWindow ==
  ASSUME NEW z \in Nat,
         Script(z + 1) = Pin("DC", 0), Script(z + 2) = Say("CASET"),
         Script(z + 3) = Pin("DC", 1), Script(z + 4) = Give(Rows),
         Script(z + 5) = Pin("DC", 0), Script(z + 6) = Say("RASET"),
         Script(z + 7) = Pin("DC", 1), Script(z + 8) = Give(Cols)
  PROVE  Fits(init_caset_raset, z, z + 8)
<1>1. Fits(spi_tx_cmd("CASET"), z, z + 2) /\ Fits(spi_tx_cmd("RASET"), z + 4, z + 6)
  <2>1. \A k \in Nat : (k + 1) + 1 = k + 2
    OBVIOUS
  <2>2. z + 4 + 1 = z + 5 /\ z + 5 + 1 = z + 6 /\ z + 1 + 1 = z + 2
    OBVIOUS
  <2> QED
    BY <2>1, <2>2, FitsCommand DEF Words
<1>2. Rows \in Int \X Int /\ Cols \in Int \X Int
  BY BringUpAssumption DEF Rows, Cols, ROW_OFFSET, COL_OFFSET
<1>3. Fits(spi_tx_data(Rows), z + 2, z + 4) /\ Fits(spi_tx_data(Cols), z + 6, z + 8)
  <2>1. z + 2 + 1 = z + 3 /\ z + 3 + 1 = z + 4 /\ z + 6 + 1 = z + 7 /\ z + 7 + 1 = z + 8
    OBVIOUS
  <2> QED
    BY <1>2, <2>1, FitsData
<1> DEFINE a == spi_tx_cmd("CASET") \o spi_tx_data(Rows)
           b == a \o spi_tx_cmd("RASET")
<1>4. Fits(a, z, z + 4)
  BY <1>1, <1>3, FitsConcat
<1>5. Fits(b, z, z + 6)
  BY <1>1, <1>4, FitsConcat
<1>6. Fits(b \o spi_tx_data(Cols), z, z + 8)
  BY <1>3, <1>5, FitsConcat
<1> QED
  BY <1>6 DEF init_caset_raset, fill_begin_end, Rows, Cols

LEMMA FitsMain == Fits(main, 0, Cleared + 20)
<1>1. Cleared \in Nat /\ Cleared >= 36
  BY TransfersNat DEF Cleared
<1> DEFINE z == Cleared
<1>2. Fits(init_caset_raset, z, z + 8)
  <2>1. /\ Script(z + 1) = Pin("DC", 0) /\ Script(z + 2) = Say("CASET")
        /\ Script(z + 3) = Pin("DC", 1) /\ Script(z + 4) = Give(Rows)
        /\ Script(z + 5) = Pin("DC", 0) /\ Script(z + 6) = Say("RASET")
        /\ Script(z + 7) = Pin("DC", 1) /\ Script(z + 8) = Give(Cols)
    BY ScriptIs DEF Rest
  <2> QED
    BY <1>1, <2>1, FitsWindow
<1>3. Fits(init_caset_raset, z + 10, z + 18)
  <2>1. /\ Script(z + 11) = Pin("DC", 0) /\ Script(z + 12) = Say("CASET")
        /\ Script(z + 13) = Pin("DC", 1) /\ Script(z + 14) = Give(Rows)
        /\ Script(z + 15) = Pin("DC", 0) /\ Script(z + 16) = Say("RASET")
        /\ Script(z + 17) = Pin("DC", 1) /\ Script(z + 18) = Give(Cols)
    BY ScriptIs DEF Rest
  <2>2. z + 10 \in Nat /\ (z + 10) + 8 = z + 18
        /\ (z + 10) + 1 = z + 11 /\ (z + 10) + 2 = z + 12 /\ (z + 10) + 3 = z + 13
        /\ (z + 10) + 4 = z + 14 /\ (z + 10) + 5 = z + 15 /\ (z + 10) + 6 = z + 16
        /\ (z + 10) + 7 = z + 17
    BY <1>1
  <2> HIDE DEF z
  <2>3. Fits(init_caset_raset, z + 10, (z + 10) + 8)
    BY <2>1, <2>2, FitsWindow
  <2> QED
    BY <2>2, <2>3
<1>4. Fits(Semaphores, z + 8, z + 10)
  <2>1. Script(z + 9) = Sem("producer", RING_BUFFER_SIZE) /\ Script(z + 10) = Sem("consumer", 0)
    BY ScriptIs DEF Rest
  <2>2. RING_BUFFER_SIZE \in Int
    BY BringUpAssumption
  <2>3. Sem("producer", RING_BUFFER_SIZE) \in Steps /\ Sem("consumer", 0) \in Steps
    BY <2>2, Pieces
  <2>4. Semaphores = <<Sem("producer", RING_BUFFER_SIZE)>> \o <<Sem("consumer", 0)>>
    BY DEF Semaphores, sem_init, Sem
  <2>5. Fits(<<Sem("producer", RING_BUFFER_SIZE)>>, z + 8, z + 9)
    BY <1>1, <2>1, <2>3, FitsOne
  <2>6. Fits(<<Sem("consumer", 0)>>, z + 9, z + 10)
    BY <1>1, <2>1, <2>3, FitsOne
  <2> QED
    BY <1>1, <2>4, <2>5, <2>6, FitsConcat
<1>5. Fits(Call("task"), z + 18, z + 19) /\ Fits(Call("serve"), z + 19, z + 20)
  <2>1. Script(z + 19) = Do("task") /\ Script(z + 20) = Do("serve")
    BY ScriptIs DEF Rest
  <2>2. Do("task") \in Steps /\ Do("serve") \in Steps
    BY Pieces
  <2>3. Fits(<<Do("task")>>, z + 18, z + 19)
    BY <1>1, <2>1, <2>2, FitsOne
  <2>4. Fits(<<Do("serve")>>, z + 19, z + 20)
    BY <1>1, <2>1, <2>2, FitsOne
  <2> QED
    BY <2>3, <2>4 DEF Call, Do
<1> DEFINE a == UpToSettings \o clear_screen
           b == a \o init_caset_raset
           c == b \o Semaphores
           d == c \o init_caset_raset
<1>6. Fits(a, 0, z)
  BY <1>1, FitsSettings, FitsClear, FitsConcat
<1>7. Fits(b, 0, z + 8)
  BY <1>1, <1>2, <1>6, FitsConcat
<1>8. Fits(c, 0, z + 10)
  BY <1>1, <1>4, <1>7, FitsConcat
<1>9. Fits(d, 0, z + 18)
  BY <1>1, <1>3, <1>8, FitsConcat
<1>10. Fits(d \o Call("task"), 0, z + 19)
  BY <1>1, <1>5, <1>9, FitsConcat
<1>11. Fits((d \o Call("task")) \o Call("serve"), 0, z + 20)
  BY <1>1, <1>5, <1>10, FitsConcat
<1> QED
  BY <1>11 DEF main, init, UpToSettings, UpToReset

(* The program of main is the script, whatever the size of the background. *)
LEMMA MainIs ==
  /\ Len(main) = Cleared + 20
  /\ \A p \in 0 .. Cleared + 19 : main[p + 1] = Script(p + 1)
  /\ \A i \in 1 .. 36 : Script(i) = Setup[i]
  /\ \A i \in 37 .. Cleared : Script(i) = Give(BACKGROUND)
  /\ \A i \in 1 .. 20 : Script(Cleared + i) = Rest[i]
<1>1. Cleared + 20 - 0 = Cleared + 20 /\ Cleared \in Nat
  BY TransfersNat
<1>2. Len(main) = Cleared + 20 /\ \A i \in 1 .. Cleared + 20 : main[i] = Script(0 + i)
  BY <1>1, FitsMain DEF Fits
<1>3. ASSUME NEW p \in 0 .. Cleared + 19 PROVE main[p + 1] = Script(p + 1)
  <2>1. p + 1 \in 1 .. Cleared + 20 /\ 0 + (p + 1) = p + 1
    BY <1>1
  <2> QED
    BY <1>2, <2>1
<1>4. ASSUME NEW i \in 37 .. Cleared PROVE Script(i) = Give(BACKGROUND)
  BY <1>1 DEF Script
<1> QED
  BY <1>2, <1>3, <1>4, ScriptIs, Zenon

------------------------------------------------------------------------------
(* The inductive invariant: what the steps taken so far have left behind *)

(* The pins and the semaphores. *)
Pins == {"DC", "RESET", "CS"}
Tokens == {"spi", "producer", "consumer"}

Types == /\ pc \in 0 .. Cleared + 20
         /\ pin \in [Pins -> {0, 1}]
         /\ sem \in [Tokens -> Int]

(* The bus is enabled first, then the panel is let out of reset and selected,
   and none of it is undone.                                                 *)
Bus == /\ pc >= 2 => enabled
       /\ pc >= 7 => pin["RESET"] = 1
       /\ pc >= 8 => pin["CS"] = 0

(* The level of PIN_LCD_DATA_COMMAND that a transfer needs. *)
LevelFor(s) == IF s.meant = "command" THEN 0 ELSE 1

(* Every step that sets that pin has been obeyed, and every transfer left it. *)
Level == /\ pc > 0 /\ Script(pc).step = "pin" /\ Script(pc).name = "DC"
              => pin["DC"] = Script(pc).level
         /\ pc > 0 /\ Script(pc).step = "send" => pin["DC"] = LevelFor(Script(pc))
         /\ pc >= Cleared + 18 => pin["DC"] = 1

(* The commands that the panel keeps, since the only reset it is sent. *)
Settled == /\ pc >= 13 => "SLEEP_OUT" \in settings
           /\ pc >= 15 => "COLMOD" \in settings
           /\ pc >= 21 => "DISPON" \in settings
           /\ pc >= 23 => "MADCTL" \in settings

(* Which command the panel takes data for, wherever it matters. *)
Window == /\ pc \in 27 .. 30 => command = "CASET"
          /\ pc \in 31 .. 34 => command = "RASET"
          /\ pc \in 35 .. Cleared + 1 => command = "RAMWR"
          /\ pc - Cleared \in 2 .. 5 \union 12 .. 15 => command = "CASET"
          /\ pc - Cleared \in 6 .. 11 \union 16 .. 20 => command = "RASET"
          /\ pc \in 29 .. 34 => rows = <<0, DISPLAY_HEIGHT>>
          /\ pc \in 33 .. 34 => cols = <<0, DISPLAY_WIDTH>>
          /\ pc >= Cleared + 4 => rows = Rows
          /\ pc >= Cleared + 8 => cols = Cols

(* Pixels of the background sent so far. *)
Sent == IF pc <= 36 THEN 0
        ELSE IF pc <= Cleared THEN (pc - 36) * BACKGROUND
        ELSE Transfers * BACKGROUND

Stream == pc >= 35 => stream = [rows |-> <<0, DISPLAY_HEIGHT>>,
                                cols |-> <<0, DISPLAY_WIDTH>>, pixels |-> Sent]

Started == /\ pc >= 1 => sem["spi"] = 0
           /\ pc >= Cleared + 9 => sem["producer"] = RING_BUFFER_SIZE
           /\ pc >= Cleared + 10 => sem["consumer"] = 0
           /\ task => pc >= Cleared + 19

Inv == Types /\ Bus /\ Level /\ Settled /\ Window /\ Stream /\ Started

(* A number of a step is one of clear_screen's background, before or after it. *)
LEMMA Parts ==
  ASSUME NEW i \in 1 .. Cleared + 20
  PROVE  i \in 1 .. 36 \/ i \in 37 .. Cleared \/ \E j \in 1 .. 20 : i = Cleared + j
<1>1. CASE i <= Cleared
  BY <1>1, TransfersNat
<1>2. CASE i > Cleared
  <2>1. i - Cleared \in 1 .. 20 /\ i = Cleared + (i - Cleared)
    BY <1>2, TransfersNat
  <2> QED
    BY <2>1
<1> QED
  BY <1>1, <1>2, TransfersNat

(* The pins' steps: levels, and which ones come last for RESET and for CS. *)
LEMMA PinSteps ==
  ASSUME NEW i \in 1 .. Cleared + 20, Script(i).step = "pin"
  PROVE  /\ Script(i).name \in Pins /\ Script(i).level \in {0, 1}
         /\ Script(i).name = "RESET" /\ i >= 7 => Script(i).level = 1
         /\ Script(i).name = "CS" /\ i >= 8 => Script(i).level = 0
<1>1. CASE i \in 1 .. 36
  <2>1. \A k \in 1 .. 36 : Setup[k].step = "pin" =>
          /\ Setup[k].name \in Pins /\ Setup[k].level \in {0, 1}
          /\ (Setup[k].name = "RESET" /\ k >= 7 => Setup[k].level = 1)
          /\ (Setup[k].name = "CS" /\ k >= 8 => Setup[k].level = 0)
    BY DEF Setup, Sem, Do, Pin, Say, Give, Pins
  <2> QED
    BY <1>1, <2>1, MainIs
<1>2. CASE i \in 37 .. Cleared
  <2>1. Script(i) = Give(BACKGROUND)
    BY <1>2, MainIs, Zenon
  <2> QED
    BY <2>1 DEF Give
<1>3. ASSUME NEW j \in 1 .. 20, i = Cleared + j
      PROVE  /\ Script(i).name \in Pins /\ Script(i).level \in {0, 1}
             /\ Script(i).name # "RESET" /\ Script(i).name # "CS"
  <2>1. \A k \in 1 .. 20 : Rest[k].step = "pin" =>
          /\ Rest[k].name \in Pins /\ Rest[k].level \in {0, 1}
          /\ Rest[k].name # "RESET" /\ Rest[k].name # "CS"
    BY DEF Rest, Sem, Do, Pin, Say, Give, Pins
  <2>2. Script(i) = Rest[j]
    BY <1>3, MainIs
  <2> QED
    BY <2>1, <2>2
<1> QED
  BY <1>1, <1>2, <1>3, Parts

(* The transfers of the first part: before the background. *)
LEMMA Transfers1 ==
  ASSUME NEW i \in 1 .. 36, Script(i).step = "send"
  PROVE  \/ i = 11 /\ Script(i) = Say("SOFT_RST")
         \/ i = 13 /\ Script(i) = Say("SLEEP_OUT")
         \/ i = 15 /\ Script(i) = Say("COLMOD")
         \/ i = 17 /\ Script(i) = Give("RGB444")
         \/ i = 19 /\ Script(i) = Say("INVON")
         \/ i = 21 /\ Script(i) = Say("DISPON")
         \/ i = 23 /\ Script(i) = Say("MADCTL")
         \/ i = 25 /\ Script(i) = Give("MV")
         \/ i = 27 /\ Script(i) = Say("CASET")
         \/ i = 29 /\ Script(i) = Give(<<0, DISPLAY_HEIGHT>>)
         \/ i = 31 /\ Script(i) = Say("RASET")
         \/ i = 33 /\ Script(i) = Give(<<0, DISPLAY_WIDTH>>)
         \/ i = 35 /\ Script(i) = Say("RAMWR")
<1>1. Script(i) = Setup[i]
  BY MainIs
<1>2. \A k \in 1 .. 36 : Setup[k].step = "send" =>
         k \in {11, 13, 15, 17, 19, 21, 23, 25, 27, 29, 31, 33, 35}
  BY DEF Setup, Sem, Do, Pin, Say, Give
<1>3. i \in {11, 13, 15, 17, 19, 21, 23, 25, 27, 29, 31, 33, 35}
  BY <1>1, <1>2
<1> QED
  BY <1>1, <1>3 DEF Setup

(* The transfers after it. *)
LEMMA Transfers2 ==
  ASSUME NEW j \in 1 .. 20, Script(Cleared + j).step = "send"
  PROVE  \/ j \in {2, 12} /\ Script(Cleared + j) = Say("CASET")
         \/ j \in {4, 14} /\ Script(Cleared + j) = Give(Rows)
         \/ j \in {6, 16} /\ Script(Cleared + j) = Say("RASET")
         \/ j \in {8, 18} /\ Script(Cleared + j) = Give(Cols)
<1>1. Script(Cleared + j) = Rest[j]
  BY MainIs
<1>2. \A k \in 1 .. 20 : Rest[k].step = "send" => k \in {2, 4, 6, 8, 12, 14, 16, 18}
  BY DEF Rest, Sem, Do, Pin, Say, Give
<1>3. j \in {2, 4, 6, 8, 12, 14, 16, 18}
  BY <1>1, <1>2
<1> QED
  BY <1>1, <1>3 DEF Rest

(* The level that a transfer needs is set by the step before it, or was needed by
   that step already.                                                         *)
LEMMA SendsFollow ==
  ASSUME NEW p \in 0 .. Cleared + 19, Script(p + 1).step = "send"
  PROVE  /\ p >= 8 /\ Script(p + 1).meant \in {"command", "data"}
         /\ \/ Script(p) = Pin("DC", LevelFor(Script(p + 1)))
            \/ Script(p).step = "send" /\ LevelFor(Script(p)) = LevelFor(Script(p + 1))
<1>1. CASE p \in 0 .. 35
  <2>1. \A k \in 1 .. 35 : Setup[k + 1].step = "send" =>
          /\ k >= 8 /\ Setup[k + 1].meant \in {"command", "data"}
          /\ Setup[k] = Pin("DC", LevelFor(Setup[k + 1]))
    BY DEF Setup, Sem, Do, Pin, Say, Give, LevelFor
  <2>2. Setup[1].step # "send"
    BY DEF Setup, Sem
  <2>3. p + 1 \in 1 .. 36
    BY <1>1
  <2>4. Script(p + 1) = Setup[p + 1]
    BY <2>3, MainIs, Zenon
  <2>5. p \in 1 .. 35 /\ p \in 1 .. 36
    BY <1>1, <2>2, <2>4
  <2>6. Script(p) = Setup[p]
    BY <2>5, MainIs, Zenon
  <2> QED
    BY <2>1, <2>4, <2>5, <2>6
<1>2. CASE p = 36
  <2>1. 37 \in 37 .. Cleared
    BY BringUpAssumption, TransfersNat DEF Cleared, Transfers
  <2>2. Script(36) = Pin("DC", 1) /\ Script(37) = Give(BACKGROUND)
    BY <2>1, MainIs DEF Setup
  <2> QED
    BY <1>2, <2>2 DEF LevelFor, Give
<1>3. CASE p \in 37 .. Cleared - 1
  <2>1. p \in 37 .. Cleared /\ p + 1 \in 37 .. Cleared
    BY <1>3, TransfersNat
  <2>2. Script(p) = Give(BACKGROUND) /\ Script(p + 1) = Give(BACKGROUND)
    BY <2>1, MainIs, Zenon
  <2> QED
    BY <1>3, <2>2 DEF LevelFor, Give
<1>4. CASE p = Cleared
  <2>1. Script(Cleared + 1) = Pin("DC", 0)
    BY MainIs DEF Rest
  <2> QED
    BY <1>4, <2>1 DEF Pin
<1>5. CASE p \in Cleared + 1 .. Cleared + 19
  <2>1. \A k \in 1 .. 19 : Rest[k + 1].step = "send" =>
          /\ Rest[k + 1].meant \in {"command", "data"}
          /\ Rest[k] = Pin("DC", LevelFor(Rest[k + 1]))
    BY DEF Rest, Sem, Do, Pin, Say, Give, LevelFor
  <2>2. PICK k \in 1 .. 19 : p = Cleared + k
    <3>1. p - Cleared \in 1 .. 19 /\ p = Cleared + (p - Cleared)
      BY <1>5, TransfersNat
    <3> QED
      BY <3>1
  <2>3. /\ p + 1 = Cleared + (k + 1) /\ p >= 8
        /\ k \in 1 .. 20 /\ k + 1 \in 1 .. 20
    BY <2>2, TransfersNat DEF Cleared
  <2>4. Script(p) = Rest[k] /\ Script(p + 1) = Rest[k + 1]
    BY <2>2, <2>3, MainIs, Zenon
  <2> QED
    BY <2>1, <2>3, <2>4
<1> QED
  BY <1>1, <1>2, <1>3, <1>4, <1>5, TransfersNat DEF Cleared

(* Where the semaphores and the task begin, and the transfers that change what
   the panel is to keep.                                                      *)
LEMMA Landmarks ==
  /\ Script(1) = Sem("spi", 0) /\ Script(2) = Do("enable")
  /\ Script(7) = Pin("RESET", 1) /\ Script(8) = Pin("CS", 0)
  /\ \A i \in {13, 15, 21, 23, 27, 29, 31, 33, 35} \union 37 .. Cleared :
       Script(i).step = "send"
  /\ \A j \in {2, 4, 6, 8, 12, 14, 16, 18} : Script(Cleared + j).step = "send"
  /\ Script(Cleared + 9) = Sem("producer", RING_BUFFER_SIZE)
  /\ Script(Cleared + 10) = Sem("consumer", 0)
  /\ Script(Cleared + 18).meant = "data"
  /\ Script(Cleared + 19) = Do("task") /\ Script(Cleared + 20) = Do("serve")
<1>1. /\ Script(1) = Sem("spi", 0) /\ Script(2) = Do("enable")
      /\ Script(7) = Pin("RESET", 1) /\ Script(8) = Pin("CS", 0)
  BY MainIs DEF Setup
<1>2. ASSUME NEW i \in {13, 15, 21, 23, 27, 29, 31, 33, 35}
      PROVE  Script(i).step = "send"
  <2>1. i \in 1 .. 36
    OBVIOUS
  <2>2. Script(i) = Setup[i]
    BY <2>1, MainIs, Zenon
  <2> QED
    BY <2>2 DEF Setup, Say, Give
<1>3. \A i \in 37 .. Cleared : Script(i).step = "send"
  <2>1. Give(BACKGROUND).step = "send"
    BY DEF Give
  <2> QED
    BY <2>1, MainIs, Zenon
<1>4. ASSUME NEW j \in {2, 4, 6, 8, 12, 14, 16, 18}
      PROVE  Script(Cleared + j).step = "send"
  <2>1. j \in 1 .. 20
    OBVIOUS
  <2>2. Script(Cleared + j) = Rest[j]
    BY <2>1, MainIs, Zenon
  <2> QED
    BY <2>2 DEF Rest, Say, Give
<1>5. /\ Script(Cleared + 9) = Sem("producer", RING_BUFFER_SIZE)
      /\ Script(Cleared + 10) = Sem("consumer", 0)
      /\ Script(Cleared + 18).meant = "data"
      /\ Script(Cleared + 19) = Do("task") /\ Script(Cleared + 20) = Do("serve")
  BY MainIs DEF Rest, Give
<1> QED
  BY <1>1, <1>2, <1>3, <1>4, <1>5

(* The semaphores' steps, and the one that starts the task. *)
LEMMA OtherSteps ==
  ASSUME NEW i \in 1 .. Cleared + 20
  PROVE  /\ Script(i).step = "sem" =>
              \/ i = 1 /\ Script(i) = Sem("spi", 0)
              \/ i = Cleared + 9 /\ Script(i) = Sem("producer", RING_BUFFER_SIZE)
              \/ i = Cleared + 10 /\ Script(i) = Sem("consumer", 0)
         /\ Script(i).step = "task" => i = Cleared + 19
<1>1. CASE i \in 1 .. 36
  <2>1. \A k \in 1 .. 36 : /\ Setup[k].step = "sem" => k = 1
                           /\ Setup[k].step # "task"
    BY DEF Setup, Sem, Do, Pin, Say, Give
  <2>2. Script(i) = Setup[i]
    BY <1>1, MainIs, Zenon
  <2> QED
    BY <1>1, <2>1, <2>2, Landmarks
<1>2. CASE i \in 37 .. Cleared
  <2>1. Script(i) = Give(BACKGROUND)
    BY <1>2, MainIs, Zenon
  <2> QED
    BY <2>1 DEF Give
<1>3. ASSUME NEW j \in 1 .. 20, i = Cleared + j
      PROVE  /\ Script(i).step = "sem" => j \in {9, 10}
             /\ Script(i).step = "task" => j = 19
  <2>1. \A k \in 1 .. 20 : /\ Rest[k].step = "sem" => k \in {9, 10}
                           /\ Rest[k].step = "task" => k = 19
    BY DEF Rest, Sem, Do, Pin, Say, Give
  <2>2. Script(i) = Rest[j]
    BY <1>3, MainIs, Zenon
  <2> QED
    BY <2>1, <2>2
<1> QED
  BY <1>1, <1>2, <1>3, Parts, Landmarks

(* What a step of main is: the next one of the script. *)
LEMMA Takes ==
  ASSUME Types, NEW s, Before(s)
  PROVE  /\ pc \in 0 .. Cleared + 19 /\ pc' = pc + 1 /\ pc' \in 1 .. Cleared + 20
         /\ Instruction = Script(pc + 1) /\ Script(pc + 1).step = s
<1>1. pc \in 0 .. Cleared + 20 /\ pc < Len(main) /\ Len(main) = Cleared + 20
  BY MainIs DEF Types, Before
<1>2. pc \in 0 .. Cleared + 19 /\ pc + 1 \in 1 .. Cleared + 20
  BY <1>1, TransfersNat
<1>3. Instruction = Script(pc + 1)
  BY <1>2, MainIs, Zenon DEF Instruction
<1> QED
  BY <1>2, <1>3 DEF Before

(* Whatever is about to be sent will be heard. *)
LEMMA HeardNow ==
  ASSUME Types, Bus, Level, pc \in 0 .. Cleared + 19, Script(pc + 1).step = "send"
  PROVE  /\ enabled /\ pin["CS"] = 0 /\ pin["RESET"] = 1
         /\ pin["DC"] = LevelFor(Script(pc + 1))
         /\ Script(pc + 1).meant \in {"command", "data"}
<1>1. /\ pc >= 8 /\ Script(pc + 1).meant \in {"command", "data"}
      /\ \/ Script(pc) = Pin("DC", LevelFor(Script(pc + 1)))
         \/ Script(pc).step = "send" /\ LevelFor(Script(pc)) = LevelFor(Script(pc + 1))
  BY SendsFollow
<1>2. pin["DC"] = LevelFor(Script(pc + 1))
  <2>1. CASE Script(pc) = Pin("DC", LevelFor(Script(pc + 1)))
    <3>1. /\ Script(pc).step = "pin" /\ Script(pc).name = "DC"
          /\ Script(pc).level = LevelFor(Script(pc + 1))
      BY <2>1 DEF Pin
    <3>2. pc > 0
      BY <1>1, TransfersNat
    <3> QED
      BY <3>1, <3>2, Zenon DEF Level
  <2>2. CASE Script(pc).step = "send" /\ LevelFor(Script(pc)) = LevelFor(Script(pc + 1))
    <3>1. pc > 0
      BY <1>1, TransfersNat
    <3> QED
      BY <2>2, <3>1, Zenon DEF Level
  <2> QED
    BY <1>1, <2>1, <2>2, Zenon
<1>3. enabled /\ pin["CS"] = 0 /\ pin["RESET"] = 1
  <2>1. pc >= 2 /\ pc >= 7 /\ pc >= 8
    BY <1>1, TransfersNat
  <2> QED
    BY <2>1, Zenon DEF Bus
<1> QED
  BY <1>1, <1>2, <1>3, Zenon

(* So a transfer does to the panel what it is meant to. *)
LEMMA TransferTakes ==
  ASSUME Types, Bus, Level, Transfer
  PROVE  /\ pc \in 0 .. Cleared + 19 /\ pc' = pc + 1 /\ pc' \in 1 .. Cleared + 20
         /\ Script(pc + 1).step = "send" /\ pin["DC"] = LevelFor(Script(pc + 1))
         /\ \A cmd : Script(pc + 1) = Say(cmd) => PanelCommand(cmd)
         /\ \A data : Script(pc + 1) = Give(data) => PanelData(data)
         /\ pin' = pin /\ sem' = sem /\ task' = task /\ enabled' = enabled
<1>1. Before("send")
  BY Zenon DEF Transfer
<1>2. /\ pc \in 0 .. Cleared + 19 /\ pc' = pc + 1 /\ pc' \in 1 .. Cleared + 20
      /\ Instruction = Script(pc + 1) /\ Script(pc + 1).step = "send"
  BY <1>1, Takes, Zenon
<1>3. pin["DC"] = LevelFor(Script(pc + 1))
  BY <1>2, HeardNow
<1>4. ASSUME NEW cmd, Script(pc + 1) = Say(cmd) PROVE PanelCommand(cmd)
  <2>1. pin["DC"] = 0 /\ Instruction.what = cmd
    BY <1>2, <1>3, <1>4 DEF LevelFor, Say
  <2> QED
    BY <2>1, Zenon DEF Transfer
<1>5. ASSUME NEW data, Script(pc + 1) = Give(data) PROVE PanelData(data)
  <2>1. ~(pin["DC"] = 0) /\ Instruction.what = data
    BY <1>2, <1>3, <1>5 DEF LevelFor, Give
  <2> QED
    BY <2>1, Zenon DEF Transfer
<1>6. pin' = pin /\ sem' = sem /\ task' = task /\ enabled' = enabled
  BY Zenon DEF Transfer
<1> QED
  BY <1>2, <1>3, <1>4, <1>5, <1>6, Zenon

(* One lemma for each part of the invariant: what the actions that can disturb
   it leave of it.                                                           *)
LEMMA TypesStart == Init => Types
<1>1. Init => pin \in [Pins -> {0, 1}] /\ sem \in [Tokens -> Int]
  BY DEF Init, Pins, Tokens, None
<1>2. Init => pc \in 0 .. Cleared + 20
  BY TransfersNat DEF Init
<1> QED
  BY <1>1, <1>2, Zenon DEF Types

LEMMA TypesKept == Types /\ Next => Types'
<1> SUFFICES ASSUME Types, Next PROVE Types'
  OBVIOUS
<1>1. ASSUME WritePin PROVE Types'
  <2>1. /\ pc' \in 1 .. Cleared + 20 /\ Instruction = Script(pc + 1)
        /\ Script(pc + 1).step = "pin" /\ pc + 1 \in 1 .. Cleared + 20
    BY <1>1, Takes DEF WritePin
  <2>2. Script(pc + 1).name \in Pins /\ Script(pc + 1).level \in {0, 1}
    BY <2>1, PinSteps
  <2>3. pin' \in [Pins -> {0, 1}] /\ sem' \in [Tokens -> Int]
    BY <1>1, <2>1, <2>2 DEF Types, WritePin
  <2> QED
    BY <2>1, <2>3 DEF Types
<1>2. ASSUME SemInit PROVE Types'
  <2>1. /\ pc' \in 1 .. Cleared + 20 /\ Instruction = Script(pc + 1)
        /\ Script(pc + 1).step = "sem" /\ pc + 1 \in 1 .. Cleared + 20
    BY <1>2, Takes DEF SemInit
  <2>2. Script(pc + 1).tokens \in Int
    BY <2>1, OtherSteps, BringUpAssumption DEF Sem
  <2>3. pin' \in [Pins -> {0, 1}] /\ sem' \in [Tokens -> Int]
    BY <1>2, <2>1, <2>2 DEF Types, SemInit
  <2> QED
    BY <2>1, <2>3 DEF Types
<1>3. ASSUME Transfer \/ EnableSpi \/ StartTask \/ Serve PROVE Types'
  <2>1. pc' \in 1 .. Cleared + 20
    BY <1>3, Takes DEF Transfer, EnableSpi, StartTask, Serve
  <2>2. pin' = pin /\ sem' = sem
    BY <1>3 DEF Transfer, EnableSpi, StartTask, Serve
  <2> QED
    BY <2>1, <2>2 DEF Types
<1> QED
  BY <1>1, <1>2, <1>3 DEF Next

LEMMA BusKept == Types /\ Bus /\ Next => Bus'
<1> SUFFICES ASSUME Types, Bus, Next PROVE Bus'
  OBVIOUS
<1>1. ASSUME WritePin PROVE Bus'
  <2>1. /\ pc \in 0 .. Cleared + 19 /\ pc' = pc + 1 /\ Instruction = Script(pc + 1)
        /\ Script(pc + 1).step = "pin" /\ pc + 1 \in 1 .. Cleared + 20
    BY <1>1, Takes DEF WritePin
  <2>2. /\ Script(pc + 1).name \in Pins
        /\ (Script(pc + 1).name = "RESET" /\ pc + 1 >= 7 => Script(pc + 1).level = 1)
        /\ (Script(pc + 1).name = "CS" /\ pc + 1 >= 8 => Script(pc + 1).level = 0)
    BY <2>1, PinSteps
  <2>3. enabled' = enabled /\ pin' = [pin EXCEPT ![Script(pc + 1).name] = Script(pc + 1).level]
    BY <1>1, <2>1 DEF WritePin
  <2>4. pc + 1 # 2
    BY <2>1, Landmarks DEF Do
  <2>5. pc + 1 = 7 => Script(pc + 1).name = "RESET"
    BY Landmarks DEF Pin
  <2>6. pc + 1 = 8 => Script(pc + 1).name = "CS"
    BY Landmarks DEF Pin
  <2>7. pin \in [Pins -> {0, 1}] /\ "RESET" \in Pins /\ "CS" \in Pins
    BY DEF Types, Pins
  <2> QED
    BY <2>1, <2>2, <2>3, <2>4, <2>5, <2>6, <2>7, TransfersNat DEF Bus
<1>2. ASSUME EnableSpi PROVE Bus'
  <2>1. /\ pc \in 0 .. Cleared + 19 /\ pc' = pc + 1 /\ Script(pc + 1).step = "enable"
    BY <1>2, Takes DEF EnableSpi
  <2>2. pc + 1 # 7 /\ pc + 1 # 8
    BY <2>1, Landmarks DEF Pin
  <2>3. enabled' = TRUE /\ pin' = pin
    BY <1>2 DEF EnableSpi
  <2> QED
    BY <2>1, <2>2, <2>3, TransfersNat DEF Bus
<1>3. ASSUME Transfer \/ SemInit \/ StartTask \/ Serve PROVE Bus'
  <2>1. /\ pc \in 0 .. Cleared + 19 /\ pc' = pc + 1
        /\ Script(pc + 1).step \in {"send", "sem", "task", "serve"}
    BY <1>3, Takes DEF Transfer, SemInit, StartTask, Serve
  <2>2. pc + 1 # 2 /\ pc + 1 # 7 /\ pc + 1 # 8
    BY <2>1, Landmarks DEF Pin, Do
  <2>3. enabled' = enabled /\ pin' = pin
    BY <1>3 DEF Transfer, SemInit, StartTask, Serve
  <2> QED
    BY <2>1, <2>2, <2>3, TransfersNat DEF Bus
<1> QED
  BY <1>1, <1>2, <1>3 DEF Next

LEMMA LevelKept == Types /\ Bus /\ Level /\ Next => Level'
<1> SUFFICES ASSUME Types, Bus, Level, Next PROVE Level'
  OBVIOUS
<1>1. ASSUME WritePin PROVE Level'
  <2>1. /\ pc \in 0 .. Cleared + 19 /\ pc' = pc + 1 /\ Instruction = Script(pc + 1)
        /\ Script(pc + 1).step = "pin" /\ pc + 1 \in 1 .. Cleared + 20
    BY <1>1, Takes DEF WritePin
  <2>2. pin' = [pin EXCEPT ![Script(pc + 1).name] = Script(pc + 1).level]
    BY <1>1, <2>1 DEF WritePin
  <2>3. Script(pc') = Script(pc + 1)
    BY <2>1
  <2>4. Script(pc').name = "DC" => pin'["DC"] = Script(pc').level
    BY <2>2, <2>3 DEF Types, Pins
  <2>5. ~(pc' >= Cleared + 18)
    <3>1. pc + 1 # Cleared + 18 /\ pc + 1 # Cleared + 19 /\ pc + 1 # Cleared + 20
      BY <2>1, Landmarks DEF Do
    <3> QED
      BY <2>1, <3>1, TransfersNat
  <2> QED
    BY <2>1, <2>3, <2>4, <2>5, Zenon DEF Level
<1>2. ASSUME Transfer PROVE Level'
  <2>1. /\ pc \in 0 .. Cleared + 19 /\ pc' = pc + 1
        /\ Script(pc + 1).step = "send" /\ pin["DC"] = LevelFor(Script(pc + 1))
        /\ pin' = pin
    BY <1>2, TransferTakes
  <2>2. Script(pc') = Script(pc + 1)
    BY <2>1
  <2>3. pc' >= Cleared + 18 => pin'["DC"] = 1
    <3>1. CASE pc + 1 = Cleared + 18
      BY <2>1, <3>1, Landmarks DEF LevelFor
    <3>2. CASE pc >= Cleared + 18
      BY <2>1, <3>2 DEF Level
    <3> QED
      BY <2>1, <3>1, <3>2, TransfersNat
  <2> QED
    BY <2>1, <2>2, <2>3 DEF Level
<1>3. ASSUME EnableSpi \/ SemInit \/ StartTask \/ Serve PROVE Level'
  <2>1. /\ pc \in 0 .. Cleared + 19 /\ pc' = pc + 1 /\ pin' = pin
        /\ Script(pc + 1).step \in {"enable", "sem", "task", "serve"}
    BY <1>3, Takes DEF EnableSpi, SemInit, StartTask, Serve
  <2>2. Script(pc') = Script(pc + 1)
    BY <2>1
  <2>3. pc + 1 # Cleared + 18
    BY <2>1, Landmarks
  <2>4. pc' >= Cleared + 18 => pin'["DC"] = 1
    BY <2>1, <2>3, TransfersNat DEF Level
  <2> QED
    BY <2>1, <2>2, <2>4 DEF Level
<1> QED
  BY <1>1, <1>2, <1>3 DEF Next

(* What the next transfer, wherever it is, is. *)
LEMMA Sends ==
  ASSUME NEW i \in 1 .. Cleared + 20, Script(i).step = "send"
  PROVE  \/ \E cmd : /\ Script(i) = Say(cmd)
                     /\ \/ i = 11 /\ cmd = "SOFT_RST"
                        \/ i = 13 /\ cmd = "SLEEP_OUT"
                        \/ i = 15 /\ cmd = "COLMOD"
                        \/ i = 19 /\ cmd = "INVON"
                        \/ i = 21 /\ cmd = "DISPON"
                        \/ i = 23 /\ cmd = "MADCTL"
                        \/ i = 35 /\ cmd = "RAMWR"
                        \/ i \in {27, Cleared + 2, Cleared + 12} /\ cmd = "CASET"
                        \/ i \in {31, Cleared + 6, Cleared + 16} /\ cmd = "RASET"
         \/ \E data : /\ Script(i) = Give(data)
                      /\ \/ i \in {17, 25}
                         \/ i = 29 /\ data = <<0, DISPLAY_HEIGHT>>
                         \/ i = 33 /\ data = <<0, DISPLAY_WIDTH>>
                         \/ i \in 37 .. Cleared /\ data = BACKGROUND
                         \/ i \in {Cleared + 4, Cleared + 14} /\ data = Rows
                         \/ i \in {Cleared + 8, Cleared + 18} /\ data = Cols
<1>1. CASE i \in 1 .. 36
  BY <1>1, Transfers1
<1>2. CASE i \in 37 .. Cleared
  BY <1>2, MainIs, Zenon
<1>3. ASSUME NEW j \in 1 .. 20, i = Cleared + j
      PROVE  \/ j \in {2, 12} /\ Script(i) = Say("CASET")
             \/ j \in {4, 14} /\ Script(i) = Give(Rows)
             \/ j \in {6, 16} /\ Script(i) = Say("RASET")
             \/ j \in {8, 18} /\ Script(i) = Give(Cols)
  BY <1>3, Transfers2
<1>4. CASE \E j \in 1 .. 20 : i = Cleared + j
  BY <1>3, <1>4
<1> QED
  BY <1>1, <1>2, <1>4, Parts

(* The steps that send nothing leave the panel alone. *)
LEMMA Silent ==
  ASSUME Types, WritePin \/ EnableSpi \/ SemInit \/ StartTask \/ Serve
  PROVE  /\ pc \in 0 .. Cleared + 19 /\ pc' = pc + 1
         /\ Script(pc + 1).step # "send"
         /\ command' = command /\ settings' = settings
         /\ rows' = rows /\ cols' = cols /\ stream' = stream
  BY Takes DEF WritePin, EnableSpi, SemInit, StartTask, Serve, Panel

LEMMA SettledKept == Types /\ Bus /\ Level /\ Settled /\ Next => Settled'
<1> SUFFICES ASSUME Types, Bus, Level, Settled, Next PROVE Settled'
  OBVIOUS
<1>1. ASSUME Transfer PROVE Settled'
  <2>1. /\ pc \in 0 .. Cleared + 19 /\ pc' = pc + 1 /\ pc + 1 \in 1 .. Cleared + 20
        /\ Script(pc + 1).step = "send"
        /\ \A cmd : Script(pc + 1) = Say(cmd) => PanelCommand(cmd)
        /\ \A data : Script(pc + 1) = Give(data) => PanelData(data)
    BY <1>1, TransferTakes
  <2>2. ASSUME NEW cmd, Script(pc + 1) = Say(cmd),
               \/ pc + 1 = 11 /\ cmd = "SOFT_RST"
               \/ pc + 1 = 13 /\ cmd = "SLEEP_OUT"
               \/ pc + 1 = 15 /\ cmd = "COLMOD"
               \/ pc + 1 = 19 /\ cmd = "INVON"
               \/ pc + 1 = 21 /\ cmd = "DISPON"
               \/ pc + 1 = 23 /\ cmd = "MADCTL"
               \/ pc + 1 > 26 /\ cmd # "SOFT_RST"
        PROVE  Settled'
    <3>1. settings' = IF cmd = "SOFT_RST" THEN {} ELSE settings \union {cmd}
      BY <2>1, <2>2 DEF PanelCommand
    <3> QED
      BY <2>1, <2>2, <3>1, TransfersNat DEF Settled
  <2>3. ASSUME NEW data, Script(pc + 1) = Give(data),
               pc + 1 \in {17, 25, 29, 33} \/ pc + 1 > 36
        PROVE  Settled'
    <3>1. settings' = settings
      BY <2>1, <2>3 DEF PanelData
    <3> QED
      BY <2>1, <2>3, <3>1, TransfersNat DEF Settled
  <2> QED
    BY <2>1, <2>2, <2>3, Sends, TransfersNat DEF Cleared
<1>2. ASSUME WritePin \/ EnableSpi \/ SemInit \/ StartTask \/ Serve PROVE Settled'
  <2>1. /\ pc \in 0 .. Cleared + 19 /\ pc' = pc + 1 /\ settings' = settings
        /\ Script(pc + 1).step # "send"
    BY <1>2, Silent
  <2>2. pc + 1 # 13 /\ pc + 1 # 15 /\ pc + 1 # 21 /\ pc + 1 # 23
    BY <2>1, Landmarks
  <2> QED
    BY <2>1, <2>2, TransfersNat DEF Settled
<1> QED
  BY <1>1, <1>2 DEF Next

LEMMA WindowKept == Types /\ Bus /\ Level /\ Window /\ Next => Window'
<1> SUFFICES ASSUME Types, Bus, Level, Window, Next PROVE Window'
  OBVIOUS
<1>0. Cleared \in Nat /\ Cleared >= 37
  BY BringUpAssumption, TransfersNat DEF Cleared, Transfers
<1>1. ASSUME Transfer PROVE Window'
  <2>1. /\ pc \in 0 .. Cleared + 19 /\ pc' = pc + 1 /\ pc + 1 \in 1 .. Cleared + 20
        /\ Script(pc + 1).step = "send"
        /\ \A cmd : Script(pc + 1) = Say(cmd) => PanelCommand(cmd)
        /\ \A data : Script(pc + 1) = Give(data) => PanelData(data)
    BY <1>1, TransferTakes
  <2>2. ASSUME NEW cmd, Script(pc + 1) = Say(cmd),
               \/ pc + 1 <= 23
               \/ pc + 1 \in {27, Cleared + 2, Cleared + 12} /\ cmd = "CASET"
               \/ pc + 1 \in {31, Cleared + 6, Cleared + 16} /\ cmd = "RASET"
               \/ pc + 1 = 35 /\ cmd = "RAMWR"
        PROVE  Window'
    <3>1. command' = cmd /\ rows' = rows /\ cols' = cols
      BY <2>1, <2>2 DEF PanelCommand
    <3> QED
      BY <1>0, <2>1, <2>2, <3>1 DEF Window
  <2>3. ASSUME NEW data, Script(pc + 1) = Give(data),
               \/ pc + 1 \in {17, 25}
               \/ pc + 1 = 29 /\ data = <<0, DISPLAY_HEIGHT>>
               \/ pc + 1 = 33 /\ data = <<0, DISPLAY_WIDTH>>
               \/ pc + 1 \in 37 .. Cleared
               \/ pc + 1 \in {Cleared + 4, Cleared + 14} /\ data = Rows
               \/ pc + 1 \in {Cleared + 8, Cleared + 18} /\ data = Cols
        PROVE  Window'
    <3>1. /\ command' = command
          /\ rows' = IF command = "CASET" THEN data ELSE rows
          /\ cols' = IF command = "RASET" THEN data ELSE cols
      BY <2>1, <2>3 DEF PanelData
    <3>2. CASE pc + 1 \in {17, 25}
      BY <1>0, <2>1, <3>1, <3>2 DEF Window
    <3>3. CASE pc + 1 = 29 /\ data = <<0, DISPLAY_HEIGHT>>
      BY <1>0, <2>1, <3>1, <3>3 DEF Window
    <3>4. CASE pc + 1 = 33 /\ data = <<0, DISPLAY_WIDTH>>
      BY <1>0, <2>1, <3>1, <3>4 DEF Window
    <3>5. CASE pc + 1 \in 37 .. Cleared
      BY <1>0, <2>1, <3>1, <3>5 DEF Window
    <3>6. CASE pc + 1 \in {Cleared + 4, Cleared + 14} /\ data = Rows
      BY <1>0, <2>1, <3>1, <3>6 DEF Window
    <3>7. CASE pc + 1 \in {Cleared + 8, Cleared + 18} /\ data = Cols
      BY <1>0, <2>1, <3>1, <3>7 DEF Window
    <3> QED
      BY <2>3, <3>2, <3>3, <3>4, <3>5, <3>6, <3>7
  <2> QED
    BY <2>1, <2>2, <2>3, Sends, <1>0
<1>2. ASSUME WritePin \/ EnableSpi \/ SemInit \/ StartTask \/ Serve PROVE Window'
  <2>1. /\ pc \in 0 .. Cleared + 19 /\ pc' = pc + 1 /\ Script(pc + 1).step # "send"
        /\ command' = command /\ rows' = rows /\ cols' = cols
    BY <1>2, Silent
  <2>2. /\ pc + 1 # 27 /\ pc + 1 # 29 /\ pc + 1 # 31 /\ pc + 1 # 33 /\ pc + 1 # 35
        /\ pc + 1 # Cleared + 2 /\ pc + 1 # Cleared + 4 /\ pc + 1 # Cleared + 6
        /\ pc + 1 # Cleared + 8 /\ pc + 1 # Cleared + 12 /\ pc + 1 # Cleared + 16
    BY <2>1, Landmarks
  <2> QED
    BY <1>0, <2>1, <2>2 DEF Window
<1> QED
  BY <1>1, <1>2 DEF Next

LEMMA StreamKept == Types /\ Bus /\ Level /\ Window /\ Stream /\ Next => Stream'
<1> SUFFICES ASSUME Types, Bus, Level, Window, Stream, Next PROVE Stream'
  OBVIOUS
<1>0. Cleared \in Nat /\ Cleared >= 37 /\ BACKGROUND \in Nat
      /\ Transfers \in Nat /\ Cleared = 36 + Transfers
  BY BringUpAssumption, TransfersNat DEF Cleared, Transfers
<1>1. ASSUME Transfer PROVE Stream'
  <2>1. /\ pc \in 0 .. Cleared + 19 /\ pc' = pc + 1 /\ pc + 1 \in 1 .. Cleared + 20
        /\ Script(pc + 1).step = "send"
        /\ \A cmd : Script(pc + 1) = Say(cmd) => PanelCommand(cmd)
        /\ \A data : Script(pc + 1) = Give(data) => PanelData(data)
    BY <1>1, TransferTakes
  <2>2. ASSUME NEW cmd, Script(pc + 1) = Say(cmd),
               \/ pc + 1 <= 31
               \/ pc + 1 = 35 /\ cmd = "RAMWR"
               \/ pc + 1 > Cleared + 1 /\ cmd # "RAMWR"
        PROVE  Stream'
    <3>1. stream' = IF cmd = "RAMWR" THEN [rows |-> rows, cols |-> cols, pixels |-> 0]
                                     ELSE stream
      BY <2>1, <2>2 DEF PanelCommand
    <3>2. CASE pc + 1 <= 31
      BY <1>0, <2>1, <3>2 DEF Stream
    <3>3. CASE pc + 1 = 35 /\ cmd = "RAMWR"
      BY <1>0, <2>1, <3>1, <3>3 DEF Window, Stream, Sent
    <3>4. CASE pc + 1 > Cleared + 1 /\ cmd # "RAMWR"
      BY <1>0, <2>1, <3>1, <3>4 DEF Stream, Sent
    <3> QED
      BY <2>2, <3>2, <3>3, <3>4
  <2>3. ASSUME NEW data, Script(pc + 1) = Give(data),
               \/ pc + 1 <= 33
               \/ pc + 1 \in 37 .. Cleared /\ data = BACKGROUND
               \/ pc + 1 > Cleared + 3
                  /\ pc - Cleared \in {3, 7, 13, 17}
        PROVE  Stream'
    <3>1. stream' = IF command = "RAMWR" THEN [stream EXCEPT !.pixels = @ + data]
                                         ELSE stream
      BY <2>1, <2>3 DEF PanelData
    <3>2. CASE pc + 1 <= 33
      BY <1>0, <2>1, <3>2 DEF Stream
    <3>3. CASE pc + 1 \in 37 .. Cleared /\ data = BACKGROUND
      <4>1. command = "RAMWR"
        BY <1>0, <2>1, <3>3 DEF Window
      <4>2. Sent' = Sent + BACKGROUND
        <5>1. \A x, b \in Nat : (x + 1) * b = x * b + b
          OBVIOUS
        <5>2. pc - 36 \in Nat /\ pc' - 36 = (pc - 36) + 1 /\ pc' > 36 /\ pc' <= Cleared
          BY <1>0, <2>1, <3>3
        <5>3. (pc' - 36) * BACKGROUND = (pc - 36) * BACKGROUND + BACKGROUND
          BY <1>0, <5>1, <5>2
        <5>4. Sent' = (pc' - 36) * BACKGROUND
          BY <1>0, <2>1, <5>2 DEF Sent
        <5>5. Sent = (pc - 36) * BACKGROUND
          <6>1. CASE pc = 36
            BY <1>0, <6>1 DEF Sent
          <6>2. CASE pc # 36
            BY <1>0, <5>2, <6>2, <2>1 DEF Sent
          <6> QED
            BY <6>1, <6>2
        <5> QED
          BY <5>3, <5>4, <5>5
      <4>3. stream = [rows |-> <<0, DISPLAY_HEIGHT>>,
                      cols |-> <<0, DISPLAY_WIDTH>>, pixels |-> Sent]
        BY <1>0, <2>1, <3>3 DEF Stream
      <4> QED
        BY <3>1, <3>3, <4>1, <4>2, <4>3 DEF Stream
    <3>4. CASE pc - Cleared \in {3, 7, 13, 17}
      <4>1. command # "RAMWR"
        BY <1>0, <2>1, <3>4 DEF Window
      <4> QED
        BY <1>0, <2>1, <3>1, <3>4, <4>1 DEF Stream, Sent
    <3> QED
      BY <2>3, <3>2, <3>3, <3>4
  <2> QED
    BY <2>1, <2>2, <2>3, Sends, <1>0
<1>2. ASSUME WritePin \/ EnableSpi \/ SemInit \/ StartTask \/ Serve PROVE Stream'
  <2>1. /\ pc \in 0 .. Cleared + 19 /\ pc' = pc + 1 /\ Script(pc + 1).step # "send"
        /\ stream' = stream
    BY <1>2, Silent
  <2>2. pc + 1 # 35 /\ ~(pc + 1 \in 37 .. Cleared)
    BY <2>1, Landmarks
  <2>3. pc' >= 35 => pc >= 35 /\ Sent' = Sent
    BY <1>0, <2>1, <2>2 DEF Sent
  <2> QED
    BY <2>1, <2>3 DEF Stream
<1> QED
  BY <1>1, <1>2 DEF Next

LEMMA StartedKept == Types /\ Started /\ Next => Started'
<1> SUFFICES ASSUME Types, Started, Next PROVE Started'
  OBVIOUS
<1>0. Cleared \in Nat /\ Cleared >= 37
  BY BringUpAssumption, TransfersNat DEF Cleared, Transfers
<1>1. ASSUME SemInit PROVE Started'
  <2>1. /\ pc \in 0 .. Cleared + 19 /\ pc' = pc + 1 /\ pc + 1 \in 1 .. Cleared + 20
        /\ Instruction = Script(pc + 1) /\ Script(pc + 1).step = "sem"
    BY <1>1, Takes DEF SemInit
  <2>2. /\ sem' = [sem EXCEPT ![Script(pc + 1).name] = Script(pc + 1).tokens]
        /\ task' = task
    BY <1>1, <2>1 DEF SemInit
  <2>3. sem \in [Tokens -> Int]
    BY DEF Types
  <2>4. \/ pc + 1 = 1 /\ Script(pc + 1) = Sem("spi", 0)
        \/ pc + 1 = Cleared + 9 /\ Script(pc + 1) = Sem("producer", RING_BUFFER_SIZE)
        \/ pc + 1 = Cleared + 10 /\ Script(pc + 1) = Sem("consumer", 0)
    BY <2>1, OtherSteps
  <2> QED
    BY <1>0, <2>1, <2>2, <2>3, <2>4 DEF Started, Sem, Tokens
<1>2. ASSUME StartTask PROVE Started'
  <2>1. /\ pc \in 0 .. Cleared + 19 /\ pc' = pc + 1 /\ pc + 1 \in 1 .. Cleared + 20
        /\ Script(pc + 1).step = "task" /\ sem' = sem
    BY <1>2, Takes DEF StartTask
  <2>2. pc + 1 = Cleared + 19
    BY <2>1, OtherSteps
  <2> QED
    BY <1>0, <2>1, <2>2 DEF Started
<1>3. ASSUME WritePin \/ Transfer \/ EnableSpi \/ Serve PROVE Started'
  <2>1. /\ pc \in 0 .. Cleared + 19 /\ pc' = pc + 1 /\ sem' = sem /\ task' = task
        /\ Script(pc + 1).step \in {"pin", "send", "enable", "serve"}
    BY <1>3, Takes DEF WritePin, Transfer, EnableSpi, Serve
  <2>2. pc + 1 # 1 /\ pc + 1 # Cleared + 9 /\ pc + 1 # Cleared + 10
    BY <2>1, Landmarks DEF Sem
  <2> QED
    BY <1>0, <2>1, <2>2 DEF Started
<1> QED
  BY <1>1, <1>2, <1>3 DEF Next

(* The invariant holds from the start and is kept by every step. *)
LEMMA Always == Spec => []Inv
<1>1. Init => Inv
  <2>1. Init => Types
    BY TypesStart
  <2>2. ASSUME Init PROVE Bus /\ Level /\ Settled /\ Window /\ Stream /\ Started
    <3>1. pc = 0 /\ task = FALSE /\ Cleared \in Nat /\ Cleared >= 37
      BY <2>2, BringUpAssumption, TransfersNat DEF Init, Cleared, Transfers
    <3> QED
      BY <3>1 DEF Bus, Level, Settled, Window, Stream, Started
  <2> QED
    BY <2>1, <2>2 DEF Inv
<1>2. Inv /\ [Next]_vars => Inv'
  <2>1. Inv /\ Next => Inv'
    BY TypesKept, BusKept, LevelKept, SettledKept, WindowKept, StreamKept,
       StartedKept, Zenon DEF Inv
  <2>2. Inv /\ UNCHANGED vars => Inv'
    BY DEF Inv, vars, Types, Bus, Level, Settled, Window, Stream, Started, Sent
  <2> QED
    BY <2>1, <2>2
<1> QED
  BY <1>1, <1>2, PTL DEF Spec

(* Whatever main sends to the panel is heard and taken for what it is meant,
   whatever level spi_tx_cmd or spi_tx_data left on the pin before.          *)
THEOREM AlwaysHeard == Spec => []Heard
<1>1. Inv => Heard
  <2> SUFFICES ASSUME Inv, pc < Len(main), Instruction.step = "send" PROVE Heard
    BY DEF Heard
  <2>1. Types /\ Bus /\ Level
    BY DEF Inv
  <2>2. pc \in 0 .. Cleared + 19
    BY <2>1, MainIs, TransfersNat DEF Types
  <2>3. Instruction = Script(pc + 1)
    BY <2>2, MainIs, Zenon DEF Instruction
  <2>4. /\ enabled /\ pin["CS"] = 0 /\ pin["RESET"] = 1
        /\ pin["DC"] = LevelFor(Script(pc + 1))
    BY <2>1, <2>2, <2>3, HeardNow
  <2> QED
    BY <2>3, <2>4, Zenon DEF Heard, LevelFor
<1> QED
  BY <1>1, Always, PTL

(* The display task is started on a panel and on semaphores that are ready for
   the pipeline: init calls nothing too late for it.                         *)
THEOREM TaskIsReady == Spec => []TaskFindsPanel
<1>1. Inv => TaskFindsPanel
  <2> SUFFICES ASSUME Inv, task PROVE TaskFindsPanel
    BY DEF TaskFindsPanel
  <2>1. Types /\ Level /\ Settled /\ Window /\ Started
    BY DEF Inv
  <2>2. /\ pc \in Nat /\ Cleared \in Nat /\ Cleared >= 37 /\ pc >= Cleared + 19
    BY <2>1, BringUpAssumption, TransfersNat DEF Started, Types, Cleared, Transfers
  <2>3. sem = [spi |-> 0, producer |-> RING_BUFFER_SIZE, consumer |-> 0]
    <3>1. /\ sem["spi"] = 0 /\ sem["producer"] = RING_BUFFER_SIZE
          /\ sem["consumer"] = 0
      BY <2>1, <2>2 DEF Started
    <3>2. sem \in [Tokens -> Int]
      BY <2>1 DEF Types
    <3> QED
      BY <3>1, <3>2 DEF Tokens
  <2>4. {"SLEEP_OUT", "COLMOD", "DISPON", "MADCTL"} \subseteq settings
    BY <2>1, <2>2 DEF Settled
  <2>5. rows = Rows /\ cols = Cols /\ pin["DC"] = 1
    BY <2>1, <2>2 DEF Window, Level
  <2>6. /\ rows[2] - rows[1] + 1 = SCREEN_HEIGHT
        /\ cols[2] - cols[1] + 1 >= SCREEN_WIDTH
    BY <2>5, BringUpAssumption DEF Rows, Cols, ROW_OFFSET, COL_OFFSET
  <2> QED
    BY <2>3, <2>4, <2>5, <2>6 DEF TaskFindsPanel
<1> QED
  BY <1>1, Always, PTL

(* A square of w * w cells, filled column by column in columns of w + 1: all but
   the last column, and the first cell of that.                              *)
LEMMA ColumnsTooHigh ==
  ASSUME NEW w \in Nat, NEW row \in 0 .. w - 1, NEW col \in 0 .. w - 1
  PROVE  col * (w + 1) + row < w * w <=> col < w - 1 \/ row = 0
<1>1. CASE col = w - 1
  <2>1. (w - 1) * (w + 1) = w * w - 1
    OBVIOUS
  <2>2. w * w \in Int
    OBVIOUS
  <2> QED
    BY <1>1, <2>1, <2>2
<1>2. CASE col < w - 1
  <2>1. \A a, b, c \in Nat : a <= b => a * c <= b * c
    OBVIOUS
  <2>2. col \in Nat /\ w - 2 \in Nat /\ w + 1 \in Nat /\ col <= w - 2
    BY <1>2
  <2>3. col * (w + 1) <= (w - 2) * (w + 1)
    BY <2>1, <2>2
  <2>4. (w - 2) * (w + 1) = w * w - w - 2
    OBVIOUS
  <2>5. w * w \in Int /\ col * (w + 1) \in Int
    OBVIOUS
  <2> QED
    BY <1>2, <2>3, <2>4, <2>5
<1> QED
  BY <1>1, <1>2

(* README.md:226 of any panel and any background that tiles it: clear_screen
   leaves the last column but for a pixel, and no more than that.            *)
THEOREM LastColumn == Spec => []LastColumnMissing
<1>1. Inv => LastColumnMissing
  <2> SUFFICES ASSUME Inv, task,
                      NEW row \in 0 .. DISPLAY_HEIGHT - 1,
                      NEW col \in 0 .. DISPLAY_WIDTH - 1
               PROVE  Written(row, col) <=> col < DISPLAY_WIDTH - 1 \/ row = 0
    BY DEF LastColumnMissing
  <2>1. Types /\ Stream /\ Started
    BY DEF Inv
  <2>2. /\ pc \in Nat /\ Cleared \in Nat /\ Cleared >= 37 /\ pc >= Cleared + 19
    BY <2>1, BringUpAssumption, TransfersNat DEF Started, Types, Cleared, Transfers
  <2>3. Sent = Transfers * BACKGROUND
    BY <2>2 DEF Sent
  <2>4. stream = [rows |-> <<0, DISPLAY_HEIGHT>>, cols |-> <<0, DISPLAY_WIDTH>>,
                  pixels |-> Transfers * BACKGROUND]
    BY <2>1, <2>2, <2>3 DEF Stream
  <2>5. Transfers * BACKGROUND = DISPLAY_WIDTH * DISPLAY_WIDTH
    <3>1. \A c, b \in Nat : (c * b * c) * b = (c * b) * (c * b)
      OBVIOUS
    <3> QED
      BY <3>1, BringUpAssumption DEF Transfers
  <2>6. DISPLAY_WIDTH \in Nat /\ DISPLAY_HEIGHT = DISPLAY_WIDTH
    BY BringUpAssumption
  <2>7. Written(row, col) <=>
          col * (DISPLAY_WIDTH + 1) + row < DISPLAY_WIDTH * DISPLAY_WIDTH
    <3>1. stream.rows[1] = 0 /\ stream.rows[2] = DISPLAY_WIDTH /\ stream.cols[1] = 0
          /\ stream.pixels = DISPLAY_WIDTH * DISPLAY_WIDTH
      BY <2>4, <2>5, <2>6
    <3>2. stream.rows[2] - stream.rows[1] + 1 = DISPLAY_WIDTH + 1
          /\ col - stream.cols[1] = col /\ row - stream.rows[1] = row
      BY <2>6, <3>1
    <3> QED
      BY <3>1, <3>2, Zenon DEF Written
  <2> QED
    BY <2>6, <2>7, ColumnsTooHigh
<1> QED
  BY <1>1, Always, PTL

------------------------------------------------------------------------------
(* The pixels of a column *)

(* A byte is put together from two halves and split into them again. *)
LEMMA HalvesOfJoin ==
  ASSUME NEW h \in 0 .. 15, NEW l \in 0 .. 15
  PROVE  Join(h, l) \in 0 .. 255 /\ High(Join(h, l)) = h /\ Low(Join(h, l)) = l
  BY SMT DEF Join, High, Low

(* A byte's halves are half bytes. *)
LEMMA HalvesRange ==
  ASSUME NEW byte \in 0 .. 255
  PROVE  High(byte) \in 0 .. 15 /\ Low(byte) \in 0 .. 15
  BY SMT DEF High, Low

(* The j-th byte of a packed palette holds components 2j and 2j + 1. *)
LEMMA PackedByte ==
  ASSUME rgb \in [0 .. 3 * COLORS - 1 -> COMPONENTS],
         NEW j \in 0 .. (3 * COLORS) \div 2 - 1
  PROVE  /\ High(Packed(rgb)[j]) = High(rgb[2 * j])
         /\ Low(Packed(rgb)[j]) = High(rgb[2 * j + 1])
<1>1. 2 * j \in 0 .. 3 * COLORS - 1 /\ 2 * j + 1 \in 0 .. 3 * COLORS - 1
  BY LutAssumption, SMT
<1>2. rgb[2 * j] \in 0 .. 255 /\ rgb[2 * j + 1] \in 0 .. 255
  BY <1>1, LutAssumption
<1>3. High(rgb[2 * j]) \in 0 .. 15 /\ High(rgb[2 * j + 1]) \in 0 .. 15
  BY <1>2, HalvesRange
<1>4. Packed(rgb)[j] = Join(High(rgb[2 * j]), High(rgb[2 * j + 1]))
  BY DEF Packed
<1>5. \A h, l \in 0 .. 15 : High(Join(h, l)) = h /\ Low(Join(h, l)) = l
  BY HalvesOfJoin
<1>6. /\ High(Join(High(rgb[2 * j]), High(rgb[2 * j + 1]))) = High(rgb[2 * j])
      /\ Low(Join(High(rgb[2 * j]), High(rgb[2 * j + 1]))) = High(rgb[2 * j + 1])
  BY ONLY <1>3, <1>5, Zenon
<1> QED
  BY <1>4, <1>6

(* lut finds a colour in the packed palette, whichever half of a byte the
   colour begins with.                                                       *)
LEMMA ColorFound ==
  ASSUME rgb \in [0 .. 3 * COLORS - 1 -> COMPONENTS],
         NEW i \in 0 .. COLORS - 1
  PROVE  Color(Packed(rgb), i) =
           <<High(rgb[3 * i]), High(rgb[3 * i + 1]), High(rgb[3 * i + 2])>>
<1>1. CASE i % 2 = 0
  <2>1. PICK k \in Nat : i = 2 * k
    <3>1. i \div 2 \in Nat /\ i = 2 * (i \div 2)
      BY <1>1, LutAssumption, SMT
    <3> QED
      BY <3>1
  <2>2. (i * 12) \div 8 = 3 * k /\ (3 * k) % 3 = 0
    BY <2>1, SMT
  <2>3. /\ 3 * k \in 0 .. (3 * COLORS) \div 2 - 1
        /\ 3 * k + 1 \in 0 .. (3 * COLORS) \div 2 - 1
    BY <2>1, LutAssumption, SMT
  <2>4. /\ High(Packed(rgb)[3 * k]) = High(rgb[2 * (3 * k)])
        /\ Low(Packed(rgb)[3 * k]) = High(rgb[2 * (3 * k) + 1])
        /\ High(Packed(rgb)[3 * k + 1]) = High(rgb[2 * (3 * k + 1)])
    BY <2>3, PackedByte
  <2>5. /\ 2 * (3 * k) = 3 * i /\ 2 * (3 * k) + 1 = 3 * i + 1
        /\ 2 * (3 * k + 1) = 3 * i + 2
    BY <2>1, SMT
  <2> QED
    BY <2>2, <2>4, <2>5 DEF Color
<1>2. CASE i % 2 = 1
  <2>1. PICK k \in Nat : i = 2 * k + 1
    <3>1. i \div 2 \in Nat /\ i = 2 * (i \div 2) + 1
      BY <1>2, LutAssumption, SMT
    <3> QED
      BY <3>1
  <2>2. (i * 12) \div 8 = 3 * k + 1 /\ (3 * k + 1) % 3 = 1
    BY <2>1, SMT
  <2>3. /\ 3 * k + 1 \in 0 .. (3 * COLORS) \div 2 - 1
        /\ 3 * k + 2 \in 0 .. (3 * COLORS) \div 2 - 1
    BY <2>1, LutAssumption, SMT
  <2>4. /\ Low(Packed(rgb)[3 * k + 1]) = High(rgb[2 * (3 * k + 1) + 1])
        /\ High(Packed(rgb)[3 * k + 2]) = High(rgb[2 * (3 * k + 2)])
        /\ Low(Packed(rgb)[3 * k + 2]) = High(rgb[2 * (3 * k + 2) + 1])
    BY <2>3, PackedByte
  <2>5. /\ 2 * (3 * k + 1) + 1 = 3 * i /\ 2 * (3 * k + 2) = 3 * i + 1
        /\ 2 * (3 * k + 2) + 1 = 3 * i + 2 /\ (3 * k + 1) + 1 = 3 * k + 2
    BY <2>1, SMT
  <2>6. Color(Packed(rgb), i) = <<Low(Packed(rgb)[3 * k + 1]),
                                  High(Packed(rgb)[3 * k + 2]),
                                  Low(Packed(rgb)[3 * k + 2])>>
    <3>1. (3 * k + 1) % 3 # 0
      BY <2>2
    <3> QED
      BY <2>2, <2>5, <3>1 DEF Color
  <2> QED
    BY <2>4, <2>5, <2>6
<1>3. i % 2 = 0 \/ i % 2 = 1
  BY SMT
<1> QED
  BY <1>1, <1>2, <1>3

(* What a round looks up: the colour of its pixel, in half bytes. *)
LEMMA RoundColor ==
  ASSUME TypeOK, idi \in 0 .. HEIGHT - 1
  PROVE  LET color == Color(Packed(rgb), input[idi])
         IN  /\ color[1] \in 0 .. 15 /\ color[2] \in 0 .. 15 /\ color[3] \in 0 .. 15
             /\ color[1] = High(rgb[3 * input[idi]])
             /\ color[2] = High(rgb[3 * input[idi] + 1])
             /\ color[3] = High(rgb[3 * input[idi] + 2])
<1>1. input[idi] \in 0 .. COLORS - 1
  BY DEF TypeOK
<1>2. rgb \in [0 .. 3 * COLORS - 1 -> COMPONENTS]
  BY DEF TypeOK
<1>3. Color(Packed(rgb), input[idi])
        = <<High(rgb[3 * input[idi]]), High(rgb[3 * input[idi] + 1]),
            High(rgb[3 * input[idi] + 2])>>
  BY <1>1, <1>2, ColorFound
<1>4. /\ rgb[3 * input[idi]] \in 0 .. 255 /\ rgb[3 * input[idi] + 1] \in 0 .. 255
      /\ rgb[3 * input[idi] + 2] \in 0 .. 255
  <2>1. /\ 3 * input[idi] \in 0 .. 3 * COLORS - 1
        /\ 3 * input[idi] + 1 \in 0 .. 3 * COLORS - 1
        /\ 3 * input[idi] + 2 \in 0 .. 3 * COLORS - 1
    BY <1>1, LutAssumption, SMT
  <2> QED
    BY <1>2, <2>1, LutAssumption
<1>5. /\ High(rgb[3 * input[idi]]) \in 0 .. 15
      /\ High(rgb[3 * input[idi] + 1]) \in 0 .. 15
      /\ High(rgb[3 * input[idi] + 2]) \in 0 .. 15
  BY <1>4, HalvesRange
<1> QED
  BY <1>3, <1>5

(* Where the six half bytes of input pixel k lie in the output. *)
LEMMA PixelBytes ==
  ASSUME NEW k \in Nat
  PROVE  /\ (3 * (2 * k + 0) + 0) \div 2 = 3 * k     /\ (3 * (2 * k + 0) + 0) % 2 = 0
         /\ (3 * (2 * k + 0) + 1) \div 2 = 3 * k     /\ (3 * (2 * k + 0) + 1) % 2 = 1
         /\ (3 * (2 * k + 0) + 2) \div 2 = 3 * k + 1 /\ (3 * (2 * k + 0) + 2) % 2 = 0
         /\ (3 * (2 * k + 1) + 0) \div 2 = 3 * k + 1 /\ (3 * (2 * k + 1) + 0) % 2 = 1
         /\ (3 * (2 * k + 1) + 1) \div 2 = 3 * k + 2 /\ (3 * (2 * k + 1) + 1) % 2 = 0
         /\ (3 * (2 * k + 1) + 2) \div 2 = 3 * k + 2 /\ (3 * (2 * k + 1) + 2) % 2 = 1
  BY SMT

(* A round keeps the types: the three bytes it writes are inside the output,
   and ido does not wrap as long as the output has at most 255 bytes.        *)
LEMMA RoundTypes == TypeOK /\ [Round]_lut_vars => TypeOK'
<1> SUFFICES ASSUME TypeOK, [Round]_lut_vars
             PROVE  TypeOK'
  OBVIOUS
<1>1. CASE Round
  <2> DEFINE c == Color(Packed(rgb), input[idi])
  <2>1. idi \in 0 .. HEIGHT - 1 /\ idi' = idi + 1
    BY <1>1, LutAssumption, SMT DEF TypeOK, Round
  <2>2. ido' = 3 * idi'
    <3>1. ido' = (3 * idi + 3) % 256
      BY <1>1 DEF TypeOK, Round, NextPixel
    <3>2. 3 * idi + 3 \in 0 .. 255
      BY <2>1, LutAssumption, SMT
    <3>3. (3 * idi + 3) % 256 = 3 * idi + 3
      BY ONLY <3>2, SMT
    <3> QED
      BY <2>1, <3>1, <3>3, SMT
  <2>3. c[1] \in 0 .. 15 /\ c[2] \in 0 .. 15 /\ c[3] \in 0 .. 15
    BY <2>1, RoundColor
  <2>4. Join(c[1], c[2]) \in 0 .. 255 /\ Join(c[3], c[1]) \in 0 .. 255
        /\ Join(c[2], c[3]) \in 0 .. 255
    BY <2>3, HalvesOfJoin
  <2>5. output' \in [0 .. 3 * HEIGHT - 1 -> 0 .. 255]
    BY <1>1, <2>4 DEF TypeOK, Round
  <2>6. idi' \in 0 .. HEIGHT
    BY <2>1, LutAssumption, SMT
  <2> QED
    BY <1>1, <2>2, <2>5, <2>6 DEF TypeOK, Round
<1>2. CASE UNCHANGED lut_vars
  BY <1>2 DEF TypeOK, lut_vars
<1> QED
  BY <1>1, <1>2

(* A round shows its pixel twice and leaves those before it alone. *)
LEMMA RoundDoubles ==
  TypeOK /\ PixelsDoubled /\ [Round]_lut_vars => PixelsDoubled'
<1> SUFFICES ASSUME TypeOK, PixelsDoubled, [Round]_lut_vars
             PROVE  PixelsDoubled'
  OBVIOUS
<1>1. CASE Round
  <2> DEFINE color == Color(Packed(rgb), input[idi])
  <2>1. idi \in 0 .. HEIGHT - 1 /\ idi' = idi + 1 /\ ido = 3 * idi
    BY <1>1, LutAssumption, SMT DEF TypeOK, Round
  <2>2. /\ color[1] \in 0 .. 15 /\ color[2] \in 0 .. 15 /\ color[3] \in 0 .. 15
        /\ color[1] = High(rgb[3 * input[idi]])
        /\ color[2] = High(rgb[3 * input[idi] + 1])
        /\ color[3] = High(rgb[3 * input[idi] + 2])
    BY <2>1, RoundColor
  <2>3. SUFFICES ASSUME NEW k \in 0 .. idi, NEW twin \in {0, 1}, NEW c \in {0, 1, 2}
                 PROVE  Shown(3 * (2 * k + twin) + c)' = High(rgb[3 * input[k] + c])
    BY <1>1, <2>1, SMT DEF PixelsDoubled, Round
  <2>4. CASE k = idi
    <3>1. /\ output'[3 * idi]     = Join(color[1], color[2])
          /\ output'[3 * idi + 1] = Join(color[3], color[1])
          /\ output'[3 * idi + 2] = Join(color[2], color[3])
      <4>1. 3 * idi \in DOMAIN output /\ 3 * idi + 1 \in DOMAIN output
            /\ 3 * idi + 2 \in DOMAIN output
        BY <2>1, LutAssumption, SMT DEF TypeOK
      <4> HIDE DEF color
      <4>2. output' = [output EXCEPT ![3 * idi]     = Join(color[1], color[2]),
                                     ![3 * idi + 1] = Join(color[3], color[1]),
                                     ![3 * idi + 2] = Join(color[2], color[3])]
        BY <1>1, <2>1 DEF Round, color
      <4> QED
        BY <2>1, <4>1, <4>2
    <3>2. \A h, l \in 0 .. 15 : High(Join(h, l)) = h /\ Low(Join(h, l)) = l
      BY HalvesOfJoin
    <3> HIDE DEF color
    <3>3. /\ High(output'[3 * idi]) = color[1]     /\ Low(output'[3 * idi]) = color[2]
          /\ High(output'[3 * idi + 1]) = color[3] /\ Low(output'[3 * idi + 1]) = color[1]
          /\ High(output'[3 * idi + 2]) = color[2] /\ Low(output'[3 * idi + 2]) = color[3]
      <4>1. /\ High(Join(color[1], color[2])) = color[1]
            /\ Low(Join(color[1], color[2])) = color[2]
            /\ High(Join(color[3], color[1])) = color[3]
            /\ Low(Join(color[3], color[1])) = color[1]
            /\ High(Join(color[2], color[3])) = color[2]
            /\ Low(Join(color[2], color[3])) = color[3]
        BY <2>2, <3>2, Zenon
      <4> QED
        BY <3>1, <4>1
    <3>4. idi \in Nat
      BY <2>1, SMT
    <3>5. input[k] \in Nat
      BY <2>1, <2>4, LutAssumption DEF TypeOK
    <3>6. CASE twin = 0
      BY <2>2, <2>4, <3>3, <3>4, <3>5, <3>6, PixelBytes DEF Shown
    <3>7. CASE twin = 1
      BY <2>2, <2>4, <3>3, <3>4, <3>5, <3>7, PixelBytes DEF Shown
    <3> QED
      BY <3>6, <3>7
  <2>5. CASE k # idi
    <3>1. k \in 0 .. idi - 1
      BY <2>1, <2>5, SMT
    <3>2. (3 * (2 * k + twin) + c) \div 2 \in 0 .. 3 * idi - 1
      BY <2>1, <3>1, SMT
    <3>3. output'[(3 * (2 * k + twin) + c) \div 2]
            = output[(3 * (2 * k + twin) + c) \div 2]
      <4>1. (3 * (2 * k + twin) + c) \div 2 \in 0 .. 3 * HEIGHT - 1
        BY <2>1, <3>2, LutAssumption, SMT
      <4> HIDE DEF color
      <4> QED
        BY <1>1, <2>1, <3>2, <4>1 DEF Round, TypeOK
    <3>4. Shown(3 * (2 * k + twin) + c)' = Shown(3 * (2 * k + twin) + c)
      BY <3>3 DEF Shown
    <3> QED
      BY <3>1, <3>4 DEF PixelsDoubled
  <2> QED
    BY <2>4, <2>5
<1>2. CASE UNCHANGED lut_vars
  BY <1>2 DEF PixelsDoubled, Shown, lut_vars
<1> QED
  BY <1>1, <1>2

(* What lut reads and writes stays inside its arrays, for every height whose
   output a byte can index: at most 85 pixels.                                *)
THEOREM LutTypeCorrect == LutSpec => []TypeOK
<1>1. LutInit => TypeOK
  BY LutAssumption, SMT DEF LutInit, TypeOK
<1> QED
  BY <1>1, RoundTypes, PTL DEF LutSpec

(* Packing on the host and lookup on the watch agree: every pixel is shown
   twice, in the colour the palette gives it, for every palette and column.  *)
THEOREM PixelsCorrect == LutSpec => []PixelsDoubled
<1>1. LutInit => PixelsDoubled
  BY SMT DEF LutInit, PixelsDoubled
<1> QED
  BY <1>1, LutTypeCorrect, RoundDoubles, PTL DEF LutSpec
==============================================================================
