----------------------------- MODULE FileNames -----------------------------
(***************************************************************************)
(* The names of the files of a database, src/metadata/filenames.cc: how    *)
(* the names are made, how the entries of a directory are recognised, and  *)
(* what CURRENT holds.  A name is a sequence of symbols: digits, and the   *)
(* words that names are made of.  Numbers are written with the digits      *)
(* 0 .. Radix - 1 (ten in the code), padded with zeros to MinimumDigits    *)
(* (six), and end at MaxNumber (of MaximumDigits digits).                  *)
(***************************************************************************)
EXTENDS Integers, Sequences, SequencesExt

CONSTANTS Radix, MinimumDigits, MaxNumber,
          Entries     \* the names that stand in the directory

\* The words, and the characters that are none.
DescriptorPrefix == -1
LogSuffix == -2
TableSuffix == -3
TempSuffix == -4
CurrentWord == -5
LockWord == -6
Newline == -7
Letter == -8
NonAscii == -9

Characters(symbol) ==
    CASE symbol = DescriptorPrefix -> 9
      [] symbol \in {LogSuffix, TableSuffix, LockWord} -> 4
      [] symbol = TempSuffix -> 6
      [] symbol = CurrentWord -> 7
      [] OTHER -> 1

IsDigit(symbol) == symbol \in 0 .. Radix - 1

DigitsOf(number) == CHOOSE n \in 1 .. MaxNumber + 1 :
                        number < Radix ^ n /\ (n = 1 \/ number >= Radix ^ (n - 1))
MaximumDigits == DigitsOf(MaxNumber)

VARIABLES entry, stage, parsed
vars == <<entry, stage, parsed>>

Nothing == [type |-> "none", number |-> 0]
Init == entry \in Entries /\ stage = "listed" /\ parsed = Nothing

-----------------------------------------------------------------------------
NumberText(number) ==
    LET length == DigitsOf(number)
        size == Max({length, MinimumDigits})
    IN  [i \in 1 .. size |-> (number \div Radix ^ (size - i)) % Radix]

NumberedName(number, suffix) == NumberText(number) \o <<suffix>>
DescriptorName(number) == <<DescriptorPrefix>> \o NumberText(number)

FileName(type, number) ==
    CASE type = "log" -> NumberedName(number, LogSuffix)
      [] type = "table" -> NumberedName(number, TableSuffix)
      [] type = "temp" -> NumberedName(number, TempSuffix)
      [] type = "descriptor" -> DescriptorName(number)
      [] type = "current" -> <<CurrentWord>>
      [] type = "lock" -> <<LockWord>>

\* std::from_chars reads the digits at the front, if there is one and the
\* number fits.
FromChars(text) ==
    LET length == Max({n \in 0 .. Len(text) : \A i \in 1 .. n : IsDigit(text[i])})
        number == FoldLeft(LAMBDA sum, digit : Radix * sum + digit, 0, SubSeq(text, 1, length))
    IN  IF length = 0 \/ number > MaxNumber THEN -1 ELSE number

\* FAULT: any spelling of the number will do.
FaultParseCanonicalNumber(text) == IF FromChars(text) < 1 THEN 0 ELSE FromChars(text)

\* Zero stands for no number.
ParseCanonicalNumber(text) ==
    IF FromChars(text) < 1 THEN 0
    ELSE IF NumberText(FromChars(text)) # text THEN 0
    ELSE FromChars(text)

ParseNumbered(type, text) ==
    LET number == ParseCanonicalNumber(text)
    IN  IF number = 0 THEN Nothing ELSE [type |-> type, number |-> number]

TypeOfSuffix(suffix) ==
    CASE suffix = LogSuffix -> "log" [] suffix = TableSuffix -> "table" [] suffix = TempSuffix -> "temp"

ParseFileName(name) ==
    IF name = <<CurrentWord>> THEN [type |-> "current", number |-> 0]
    ELSE IF name = <<LockWord>> THEN [type |-> "lock", number |-> 0]
    ELSE IF name = <<>> THEN Nothing
    ELSE IF name[1] = DescriptorPrefix THEN ParseNumbered("descriptor", Tail(name))
    ELSE IF Last(name) \in {LogSuffix, TableSuffix, TempSuffix}
         THEN ParseNumbered(TypeOfSuffix(Last(name)), Front(name))
    ELSE Nothing

Size(name) == FoldLeft(LAMBDA sum, symbol : sum + Characters(symbol), 0, name)

\* The entry is copied into a buffer for the longest name first.
ParseNativeFileName(name) ==
    IF Size(name) > Characters(DescriptorPrefix) + MaximumDigits THEN Nothing
    ELSE IF NonAscii \in ToSet(name) THEN Nothing
    ELSE ParseFileName(name)

CurrentFileContents(number) == DescriptorName(number) \o <<Newline>>

ParseCurrentFileContents(contents) ==
    IF contents = <<>> THEN Nothing
    ELSE IF Last(contents) # Newline THEN Nothing
    ELSE LET name == ParseFileName(Front(contents))
         IN  IF name.type = "descriptor" THEN name ELSE Nothing

Recognise ==
    /\ stage = "listed"
    /\ parsed' = ParseNativeFileName(entry)
    /\ stage' = "recognised"
    /\ UNCHANGED entry

ReadCurrent ==
    /\ stage = "listed"
    /\ parsed' = ParseCurrentFileContents(entry)
    /\ stage' = "current"
    /\ UNCHANGED entry

Next == Recognise \/ ReadCurrent
Spec == Init /\ [][Next]_vars

-----------------------------------------------------------------------------
NumberedTypes == {"log", "table", "temp", "descriptor"}

Written ==
    {[type |-> type, number |-> n] : type \in NumberedTypes, n \in 1 .. MaxNumber}
        \cup {[type |-> type, number |-> 0] : type \in {"current", "lock"}}

\* An entry of the directory is recognised as a file of the database when it
\* is, letter for letter, the name the database would give that file, and never
\* otherwise: the removal of obsolete files goes by what the entries were
\* recognised as, and must find its own files and spare all others.
NamesExact ==
    stage = "recognised" =>
        \A file \in Written : parsed = file <=> entry = FileName(file.type, file.number)

\* CURRENT is accepted when it is exactly what was written for the descriptor:
\* nothing that a torn write leaves, from no byte to all but the last, passes.
CurrentExact ==
    stage = "current" =>
        \A n \in 1 .. MaxNumber :
            parsed = [type |-> "descriptor", number |-> n] <=> entry = CurrentFileContents(n)

\* Names of files and the contents of CURRENT are parsed exactly when they are
\* what the code itself writes.
NamesRead == NamesExact /\ CurrentExact
=============================================================================
