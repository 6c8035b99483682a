-------------------------------- MODULE Flash --------------------------------
(***************************************************************************)
(* The history and the configuration that bsp_flash.c keeps in the flash.  *)
(* A kind of record has a ring of pages; a record is programmed halfword   *)
(* by halfword at the place its index gives, and the page ahead is erased  *)
(* just before it is needed.  The configuration page is read, erased and   *)
(* written back to change one field.  The shell writes records and fields, *)
(* hr_thread, which preempts it, sets fields on behalf of the host; each   *)
(* erasure and each Flash_Write runs with interrupts disabled.  The power  *)
(* may fail at any time, also half-way through a Flash_Write.              *)
(*                                                                         *)
(* The flash controller is external: an erasure happens or does not, and a *)
(* halfword that is not erased keeps what it has.                          *)
(***************************************************************************)
EXTENDS Integers, Sequences, FiniteSets, FiniteSetsExt

CONSTANTS Blank,      \* an erased cell
          Header,     \* HR_RECORD_FRAME_HEADER, FLASH_FIRST_INIT_VALUE
          Kind,       \* the kinds of records
          Sensor,     \* kRecordSensoEndOfLife
          Pages,      \* hr_record_pages
          MaxNum,     \* hr_record_max_num
          PerPage,    \* FLASH_PAGE_HR_RECORD_NUM, 25
          Shown,      \* the 50 of Flash_Read_Record
          ErasedWord, \* an erased halfword as a number: 0xE339
          MaxRecords, \* bound on the length of log
          MaxIndices, \* bound on the index of a record
          MaxFailures \* bound on the power failures


VARIABLES kind,    \* the kind this behaviour is about
          slot,    \* its records: cells for header, index and time
          config,  \* the configuration page: cells for factory time, expiry
                   \* time, alarm level and init flag, in order of address
          power,   \* "off"; "init", "factory" or "expiry" during
                   \* BSP_Flash_Init, after what it has set; "on"
          doing,   \* where the shell and hr_thread are
          buf,     \* their page_buf
          new,     \* the index the shell's Flash_Write_Record will write
          log,     \* the times of the records stored since the history was
                   \* erased on purpose, the newest last
          window,  \* the page ahead is erased, the new record not written yet
          torn,    \* the power failed between a record's header and its index
          spoiled, \* the power failed while a configuration page was erased
                   \* and not complete, or two changes of it overlapped
          set,     \* the fields as they were last set, unless spoiled
          failures

flashVars == <<kind, slot, config, power, doing, buf, new, log, window, torn, spoiled, set,
               failures>>

User == {"shell", "hr"}
Field == 1 .. 3    \* factory time, expiry time, alarm level
Flag == 4
Page == 1 .. 4
Value == {"default", "other"}   \* as BSP_Flash_Init or a caller sets a field

Slot == 0 .. (Pages[kind] * PerPage - 1)
ErasedRecord == <<Blank, Blank, Blank>>
ErasedConfig == [c \in Page |-> Blank]

FlashTyped ==
  /\ kind \in Kind
  /\ \A s \in Slot : slot[s][1] \in {Blank, Header}
                     /\ slot[s][2] \in {Blank} \cup 1 .. MaxIndices
  /\ config \in [Page -> {Blank, Header} \cup Value]
  /\ power \in {"off", "init", "factory", "expiry", "on"}
  /\ doing \in [User -> {"idle", "record", "erase", "write"}]
  /\ new \in 0 .. MaxIndices
  /\ window \in BOOLEAN /\ torn \in BOOLEAN /\ spoiled \in BOOLEAN

-----------------------------------------------------------------------------
\* Flash_Write: halfword by halfword until n are programmed or one reads back
\* wrong.
Flash_Write(old, data, n) ==
  [c \in DOMAIN old |->
     IF c <= n /\ \A d \in 1 .. c : old[d] \in {Blank, data[d]} THEN data[c] ELSE old[c]]

\* The place of the record with an index in the ring of pages.
PageOf(index) == ((index - 1) \div PerPage) % Pages[kind]
PlaceOf(index) == PageOf(index) * PerPage + ((index - 1) % PerPage)

PageSlots(p) == p * PerPage .. (p + 1) * PerPage - 1

ErasePages(pages) ==
  [s \in Slot |-> IF \E p \in pages : s \in PageSlots(p) THEN ErasedRecord ELSE slot[s]]

\* Flash_GetMaxIndex_Records
IndexAt(s) == IF slot[s][2] = Blank THEN ErasedWord ELSE slot[s][2]
MaxIndex == Max({IndexAt(s) : s \in {s \in Slot : slot[s][1] = Header}} \cup {0})

Flash_GetNum_Records == IF MaxIndex <= MaxNum[kind] THEN MaxIndex ELSE MaxNum[kind]

\* Flash_Read_Record, for an index up to Flash_GetNum_Records
Flash_Read_Record(i) ==
  IF MaxIndex > MaxNum[kind]
  THEN IF kind # Sensor THEN slot[PlaceOf(MaxIndex - (Shown - i))]
                        ELSE slot[(MaxIndex - 1) % PerPage]
  ELSE slot[PlaceOf(i)]

\* Mutant: the page that is nearly full is erased, not the one ahead of it.
PagesBehind(m) == IF m > 0 /\ ((m - 1) % PerPage) + 1 = PerPage - 1 THEN {PageOf(m)} ELSE {}

\* What Flash_Write_Record erases when m is the highest index: the page after
\* the newest record's when that page is full but for one place, and it is the
\* last page or the oldest record is in the next one.
PagesAhead(m) ==
  LET first == IF m <= MaxNum[kind] THEN 0 ELSE PageOf(m - (MaxNum[kind] - 1))
      due == m > 0 /\ ((m - 1) % PerPage) + 1 = PerPage - 1
  IN  IF due /\ PageOf(m) = Pages[kind] - 1 THEN {0}
      ELSE IF due /\ PageOf(m) = first - 1 THEN {first} ELSE {}

-----------------------------------------------------------------------------
IsAt(t, label) == power # "off" /\ doing[t] = label
GoesTo(t, label) == doing' = [doing EXCEPT ![t] = label]

\* hr_thread preempts the shell, never the other way round; BSP_Flash_Init
\* runs before there are threads.
MayRun(t) == IF t = "shell" THEN doing["hr"] = "idle" ELSE power = "on"

records == <<slot, new, log, window, torn>>
settings == <<config, buf, set, spoiled>>

\* Flash_Write_Record up to the time of the new record
WriteRecord ==
  /\ power = "on" /\ IsAt("shell", "idle") /\ MayRun("shell")
  /\ Len(log) < MaxRecords /\ MaxIndex < MaxIndices
  /\ new' = MaxIndex + 1
  /\ slot' = ErasePages(PagesAhead(MaxIndex))
  /\ window' = (window \/ PagesAhead(MaxIndex) # {})
  /\ GoesTo("shell", "record")
  /\ UNCHANGED <<kind, power, log, torn, settings, failures>>

Record == <<Header, new, Len(log) + 1>>

Stored(cells) ==
  IF cells[1] = Header /\ cells[2] = new THEN Append(log, cells[3]) ELSE log

\* Flash_Write_RecordIndex
WriteRecordIndex ==
  LET cells == Flash_Write(slot[PlaceOf(new)], Record, 3) IN
  /\ IsAt("shell", "record") /\ MayRun("shell")
  /\ slot' = [slot EXCEPT ![PlaceOf(new)] = cells]
  /\ log' = Stored(cells)
  /\ window' = FALSE
  /\ GoesTo("shell", "idle")
  /\ UNCHANGED <<kind, power, new, torn, settings, failures>>

\* Flash_Erase_Records, a command of the shell
Flash_Erase_Records ==
  /\ power = "on" /\ IsAt("shell", "idle") /\ MayRun("shell")
  /\ slot' = [s \in Slot |-> ErasedRecord]
  /\ log' = <<>> /\ window' = FALSE /\ torn' = FALSE
  /\ UNCHANGED <<kind, power, doing, new, settings, failures>>

-----------------------------------------------------------------------------
Changing(t) == doing[t] \in {"erase", "write"}

\* Mutant: the new value goes into an empty page_buf.
ReadNoConfig(t, f, v) ==
  /\ buf' = [buf EXCEPT ![t] = [ErasedConfig EXCEPT ![f] = v, ![Flag] = Header]]
  /\ set' = IF spoiled' THEN ErasedConfig ELSE [set EXCEPT ![f] = v]

\* Flash_ErasePage_ReadConfigInfo reads the page; a field of it is changed
\* before it is written back.
ReadConfigInfo(t, f, v) ==
  /\ buf' = [buf EXCEPT ![t] = [config EXCEPT ![f] = v]]
  /\ set' = IF spoiled' THEN ErasedConfig ELSE [set EXCEPT ![f] = v]

\* Flash_SetProductTimeLimit, Flash_Set_AlarmLel
SetField(t, f) ==
  /\ power = "on" /\ IsAt(t, "idle") /\ MayRun(t)
  /\ spoiled' = (spoiled \/ \E u \in User : Changing(u))
  /\ ReadConfigInfo(t, f, "other")
  /\ GoesTo(t, "erase")
  /\ UNCHANGED <<kind, power, records, config, failures>>

EraseConfigInfo(t) ==
  /\ IsAt(t, "erase") /\ MayRun(t)
  /\ config' = ErasedConfig
  /\ GoesTo(t, "write")
  /\ UNCHANGED <<kind, power, records, buf, set, spoiled, failures>>

Flash_Write_ConfigInfo(t) ==
  /\ IsAt(t, "write") /\ MayRun(t)
  /\ config' = Flash_Write(config, buf[t], Flag)
  /\ buf' = [buf EXCEPT ![t] = ErasedConfig]
  /\ GoesTo(t, "idle")
  /\ UNCHANGED <<kind, power, records, set, spoiled, failures>>

-----------------------------------------------------------------------------
\* BSP_Flash_Init: with the flag in place there is nothing to do.  Otherwise
\* everything is erased and the flag written (a power failure in between comes
\* back here), then the two times are set.
BSP_Flash_Init ==
  /\ power = "off"
  /\ IF config[Flag] = Header
     THEN power' = "on" /\ UNCHANGED <<slot, settings, log, window, torn>>
     ELSE /\ power' = "init"
          /\ slot' = [s \in Slot |-> ErasedRecord]
          /\ config' = [ErasedConfig EXCEPT ![Flag] = Header]
          /\ log' = IF spoiled THEN <<>> ELSE log
          /\ set' = ErasedConfig
          /\ window' = FALSE /\ torn' = FALSE /\ spoiled' = FALSE
          /\ UNCHANGED buf
  /\ UNCHANGED <<kind, doing, new, failures>>

InitField(done, next, f) ==
  /\ power = done /\ IsAt("shell", "idle")
  /\ power' = next
  /\ UNCHANGED <<kind, records, config, spoiled, failures>>
  /\ ReadConfigInfo("shell", f, "default")
  /\ GoesTo("shell", "erase")

InitDone ==
  /\ power = "expiry" /\ IsAt("shell", "idle")
  /\ power' = "on"
  /\ UNCHANGED <<kind, doing, records, settings, failures>>

\* The thread that runs is at "record" or at "write", where n cells of what it
\* writes are programmed, or elsewhere, where nothing is being programmed.
PowerFailure(n) ==
  LET label == IF doing["hr"] # "idle" THEN doing["hr"] ELSE doing["shell"]
      t == IF doing["hr"] # "idle" THEN "hr" ELSE "shell"
      cells == Flash_Write(slot[PlaceOf(new)], Record, n)
  IN
  /\ power # "off" /\ failures < MaxFailures
  /\ failures' = failures + 1
  /\ power' = "off"
  /\ doing' = [u \in User |-> "idle"]
  /\ buf' = [u \in User |-> ErasedConfig]
  /\ spoiled' = (spoiled \/ \E u \in User : doing[u] = "write")
  /\ \/ /\ label = "record" /\ n < 3
        /\ slot' = [slot EXCEPT ![PlaceOf(new)] = cells]
        /\ log' = Stored(cells)
        /\ torn' = (torn \/ (cells[2] = Blank /\ n > 0))
        /\ window' = (window /\ n < 2)
        /\ set' = IF spoiled' THEN ErasedConfig ELSE set
        /\ UNCHANGED <<new, config>>
     \/ /\ label = "write"
        /\ config' = Flash_Write(config, buf[t], n)
        /\ set' = ErasedConfig
        /\ UNCHANGED records
     \/ /\ label \in {"idle", "erase"} /\ n = 0
        /\ set' = IF spoiled' THEN ErasedConfig ELSE config
        /\ UNCHANGED <<records, config>>
  /\ UNCHANGED kind

FlashInit ==
  /\ kind \in Kind
  /\ slot = [s \in Slot |-> ErasedRecord]
  /\ config = ErasedConfig
  /\ power = "off"
  /\ doing = [t \in User |-> "idle"]
  /\ buf = [t \in User |-> ErasedConfig]
  /\ new = 0 /\ log = <<>>
  /\ window = FALSE /\ torn = FALSE /\ spoiled = FALSE
  /\ set = ErasedConfig
  /\ failures = 0

FlashNext ==
  \/ WriteRecord \/ WriteRecordIndex \/ Flash_Erase_Records
  \/ \E t \in User :
       \/ \E f \in Field : SetField(t, f)
       \/ EraseConfigInfo(t) \/ Flash_Write_ConfigInfo(t)
  \/ BSP_Flash_Init \/ InitDone
  \/ InitField("init", "factory", 1) \/ InitField("factory", "expiry", 2)
  \/ \E n \in 0 .. 3 : PowerFailure(n)

FlashSpec == FlashInit /\ [][FlashNext]_flashVars

-----------------------------------------------------------------------------
\* The history survives rollover, power failures and the erasure of the page
\* ahead: the records that are shown are the newest ones stored, in order,
\* as many as the kind keeps (Flash_Write_Record, Flash_Read_Record).  The oldest
\* may be missing between the erasure and the new record; a header without an
\* index spoils the order.
RecordsReadBack ==
  power = "on" /\ ~torn =>
    LET num == Flash_GetNum_Records
        kept == Min({Len(log), MaxNum[kind]})
    IN  /\ num = kept \/ (kind = Sensor /\ window)
        /\ \A i \in 1 .. num :
             (i = 1 /\ window) \/ Flash_Read_Record(i)[3] = log[Len(log) - num + i]

\* To change one field keeps the others and the flag, without which the next
\* start erases the history, unless the power fails before the page is
\* complete again or another thread changes it meanwhile (Flash_Set_AlarmLel,
\* Flash_SetProductTimeLimit, BSP_Flash_Init).
ConfigKept ==
  power = "on" /\ ~spoiled /\ ~(\E t \in User : Changing(t)) =>
    config = [set EXCEPT ![Flag] = Header]
=============================================================================
