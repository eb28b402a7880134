----------------------------- MODULE MemMonitor ------------------------------
(***************************************************************************)
(* The memory monitor: UpdateOnce reads /proc/meminfo line by line into a  *)
(* local struct that is not initialised, and reports the struct.  Kernels  *)
(* differ in the lines they show, and the file may not be readable: what   *)
(* no line sets is whatever was on the stack.                              *)
(*                                                                         *)
(* Three of the nineteen fields stand for all; a line of another key is in *)
(* the file too.  The kernel writes the whole text at the first read.      *)
(***************************************************************************)
EXTENDS Integers, Sequences

CONSTANTS
  Layouts,      \* the keys of a file, in order, for each kind of kernel
  MemSize,      \* MemTotal
  StackWords    \* what an uninitialised field may hold

ASSUME LayoutsAssumption ==
  Layouts \subseteq Seq({"MemTotal:", "MemFree:", "MemAvailable:", "Slab:"})
ASSUME MemSizeAssumption == MemSize \in Nat \ {0} /\ StackWords \subseteq Int

VARIABLES
  layout,       \* the keys this kernel shows
  meminfo,      \* the values they have now
  mem_pc,       \* where UpdateOnce is: "closed", "read", "done"
  mem_text,     \* the lines it has still to read
  mem_datas,    \* the words of a line
  mem_info,     \* the local struct
  mem_detail,   \* the report
  mem_shown     \* history: the values in the text it reads

memVars == <<layout, meminfo, mem_pc, mem_text, mem_datas, mem_info, mem_detail, mem_shown>>

\* The field of MenInfo that each key sets.
FieldOf == [key \in {"MemTotal:", "MemFree:", "MemAvailable:"} |->
              CASE key = "MemTotal:" -> "total"
                [] key = "MemFree:" -> "free"
                [] key = "MemAvailable:" -> "avail"]

MenInfo == {"total", "free", "avail"}

NoValues == [f \in {} |-> 0]

\* A kernel's values: neither free nor available memory exceeds the total.
Values == [total : {MemSize}, free : 0..MemSize, avail : 0..MemSize]

MemInit ==
  /\ layout \in Layouts
  /\ meminfo = [total |-> MemSize, free |-> 0, avail |-> 0]
  /\ mem_pc = "closed" /\ mem_text = <<>> /\ mem_datas = <<>>
  /\ mem_info = NoValues /\ mem_detail = NoValues /\ mem_shown = NoValues

MemChanges ==
  /\ meminfo' \in Values
  /\ UNCHANGED <<layout, mem_pc, mem_text, mem_datas, mem_info, mem_detail, mem_shown>>

\* The lines of the file, each a key and its value.
Text == [n \in DOMAIN layout |->
           <<layout[n], IF layout[n] = "Slab:" THEN 0 ELSE meminfo[FieldOf[layout[n]]]>>]

\* ReadFile: a file that cannot be opened has no lines.
MemOpen ==
  /\ mem_pc = "closed" /\ mem_pc' = "read"
  /\ \E readable \in BOOLEAN : /\ mem_text' = IF readable THEN Text ELSE <<>>
                               /\ mem_shown' = IF readable THEN meminfo ELSE NoValues
  /\ mem_info' \in [MenInfo -> StackWords]
  /\ UNCHANGED <<layout, meminfo, mem_datas, mem_detail>>

\* Variant: mem_datas is not cleared, and ReadLine appends to it.
Cleared_missing(words) == words

\* mem_datas.clear()
Cleared(words) == <<>>

\* ReadFile::ReadLine appends the words of a line to the vector it is given.
ReadLine == mem_datas \o Head(mem_text)

\* A turn of the loop: the chain of tests of the first word.
MemLine ==
  LET words == ReadLine IN
  /\ mem_pc = "read" /\ mem_text # <<>>
  /\ mem_info' = IF words[1] \in DOMAIN FieldOf
                   THEN [mem_info EXCEPT ![FieldOf[words[1]]] = words[2]] ELSE mem_info
  /\ mem_datas' = Cleared(words)
  /\ mem_text' = Tail(mem_text)
  /\ UNCHANGED <<layout, meminfo, mem_pc, mem_detail, mem_shown>>

\* The fields of the report, each of them in kB where the code divides by
\* KBToGB, and used_percent as the share `used` of `total`.
MemReport ==
  /\ mem_pc = "read" /\ mem_text = <<>>
  /\ mem_pc' = "done"
  /\ mem_detail' = [f \in MenInfo \cup {"used"} |->
                      IF f = "used" THEN mem_info.total - mem_info.avail ELSE mem_info[f]]
  /\ UNCHANGED <<layout, meminfo, mem_text, mem_datas, mem_info, mem_shown>>

\* UpdateOnce returns: its locals are gone.
MemReturn ==
  /\ mem_pc = "done" /\ mem_pc' = "closed"
  /\ mem_text' = <<>> /\ mem_datas' = <<>>
  /\ mem_info' = NoValues /\ mem_detail' = NoValues /\ mem_shown' = NoValues
  /\ UNCHANGED <<layout, meminfo>>

MemNext == MemChanges \/ MemOpen \/ MemLine \/ MemReport \/ MemReturn

MemSpec == MemInit /\ [][MemNext]_memVars

-----------------------------------------------------------------------------
MemTypeOK ==
  /\ layout \in Layouts /\ meminfo \in Values
  /\ mem_pc \in {"closed", "read", "done"}
  /\ Len(mem_text) <= Len(layout) /\ mem_datas = <<>>
  /\ mem_pc # "closed" => mem_info \in [MenInfo -> Int]

Shows(key) == \E n \in DOMAIN layout : layout[n] = key

\* Of a file that can be read, every field that the kernel shows is reported
\* with the value of this read, whatever lines come before and after and
\* whatever the struct held: only the fields that no line names are arbitrary.
\* With the total and the available memory shown, the usage is from 0 to 100%.
ShownFieldsAreReported ==
  mem_pc = "done" /\ mem_shown # NoValues =>
    /\ \A key \in DOMAIN FieldOf : Shows(key) =>
         mem_detail[FieldOf[key]] = mem_shown[FieldOf[key]]
    /\ Shows("MemTotal:") /\ Shows("MemAvailable:") => mem_detail.used \in 0..mem_detail.total
=============================================================================
