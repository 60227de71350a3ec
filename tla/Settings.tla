-------------------------------- MODULE Settings --------------------------------
(***************************************************************************)
(* The configuration file and the settings a process makes of it           *)
(* (src/Settings.h, src/Settings.cpp; src/main.cpp: registerSettings,      *)
(* initSettings; the values src/MinerApp.cpp asks for).                    *)
(*                                                                         *)
(* A JSON value is its kind and its text: what json_to_string returns, the *)
(* contents of a string and the dump of anything else.  Validators look at *)
(* the text, and the typed getters look at the kind.  The program itself   *)
(* only loads, saves and reads; set, setNoThrow and reset are what the     *)
(* class offers besides.  JSON's negative and fractional numbers are left  *)
(* out.                                                                    *)
(***************************************************************************)
EXTENDS Integers, FiniteSets

CONSTANTS
  NumberOf,  \* boost::lexical_cast<std::uint32_t>: the number of each text that is one
  DumpOf,    \* the text json_to_string makes of each number
  Names,     \* the settings the user touches
  Texts,     \* the texts the user writes
  MaxItems,  \* bound: settings in a file the user writes
  MaxCalls   \* bound: calls of set, setNoThrow, reset and save in one process

ASSUME SettingsBoundsAssumption == MaxItems \in Nat /\ MaxCalls \in Nat

\* Which texts are numbers is left open, but for words, the digits that are Booleans,
\* too, and the numbers registerSettings writes.  A text may be another spelling of a
\* number than the one it is dumped as.
ASSUME NumberOfAssumption ==
  \A text \in DOMAIN NumberOf :
    /\ NumberOf[text] \in Nat
    /\ DumpOf[NumberOf[text]] \in DOMAIN NumberOf
    /\ NumberOf[DumpOf[NumberOf[text]]] = NumberOf[text]
    /\ text \in {"0", "1"} => DumpOf[NumberOf[text]] = text
ASSUME DefaultNumbersAssumption ==
  /\ {"5242880", "27182", "14142"} \subseteq DOMAIN NumberOf
  /\ NumberOf["5242880"] = 5242880 /\ NumberOf["27182"] = 27182 /\ NumberOf["14142"] = 14142
ASSUME WordsAssumption ==
  /\ "" \notin DOMAIN NumberOf
  /\ \A text \in {"true", "on", "false", "off", "null"} : text \notin DOMAIN NumberOf

VARIABLES
  file,      \* the configuration file: the settings in it, or NoFile
  settings,  \* _settings
  phase,     \* the process: "off", "loaded", "running", or how it ended
  last,      \* the last call of set or setNoThrow and what came of it (history)
  calls      \* calls made in this process

vars == <<file, settings, phase, last, calls>>

-------------------------------------------------------------------------------
(* Values and validators.                                                    *)

Json(kind, text) == [kind |-> kind, text |-> text]

\* utils::isBoolean and utils::convertToBool.
trueStrings == {"true", "on", "1"}
falseStrings == {"false", "off", "0"}
isBoolean(text) == text \in trueStrings \cup falseStrings
convertToBool(text) == IF text \in trueStrings THEN "true" ELSE "false"

filesizeMin == 1024
filesizeMax == 1024 * 1024 * 1024
portMin == 1024
portMax == 65535

NotEmptyValidator(text) == text # ""
RangeValidator(text) ==
  text \in DOMAIN NumberOf /\ NumberOf[text] \in filesizeMin..filesizeMax
BoolValidator(text) == isBoolean(text)

\* Faulty variant: a text that is not a number passes the range.
isValidLax(validator, text) ==
  \/ validator = "none"
  \/ validator = "not_empty" /\ NotEmptyValidator(text)
  \/ validator = "range" /\ (text \in DOMAIN NumberOf => RangeValidator(text))
  \/ validator = "bool" /\ BoolValidator(text)

\* isValid of the validator a setting was registered with, if it was with one.
isValid(validator, text) ==
  \/ validator = "none"
  \/ validator = "not_empty" /\ NotEmptyValidator(text)
  \/ validator = "range" /\ RangeValidator(text)
  \/ validator = "bool" /\ BoolValidator(text)

-------------------------------------------------------------------------------
(* What is registered, and what the program falls back to.                   *)

registerBool(text) == [default |-> Json("bool", text), validator |-> "bool"]
registerUInt(text) == [default |-> Json("uint", text), validator |-> "range"]
registerString(text, validator) == [default |-> Json("string", text), validator |-> validator]

\* The address of a node that was given none, "<CHANGE ME>".
NoAddress == "CHANGE_ME"

\* registerSettings.  The ports are given the range of the file size.
Registered ==
  [n \in {"chain.reset.enable", "database.folder", "database.filesize.max", "mining.autostart",
          "mining.miner.address", "rest.port", "websocket.port", "rest.autoload", "peers.file",
          "logs.level", "logs.file.enabled", "logs.file.folder"} |->
     CASE n \in {"chain.reset.enable", "logs.file.enabled"} -> registerBool("true")
       [] n \in {"mining.autostart", "rest.autoload"} -> registerBool("false")
       [] n = "database.filesize.max" -> registerUInt("5242880")
       [] n = "rest.port" -> registerUInt("27182")
       [] n = "websocket.port" -> registerUInt("14142")
       [] n = "mining.miner.address" -> registerString(NoAddress, "not_empty")
       [] n = "logs.level" -> registerString("info", "none")
       [] OTHER -> registerString("home", "not_empty")]

Defaults == [n \in DOMAIN Registered |-> Registered[n].default]

ASSUME NamesAssumption == Names \subseteq DOMAIN Registered

\* The value the callers of value() pass along, for settings of another kind.
Fallback(n) ==
  CASE Registered[n].default.kind = "bool" -> "false"
    [] n \in {"rest.port", "websocket.port"} -> Defaults[n].text
    [] n = "logs.level" -> "info"
    [] OTHER -> ""

\* Faulty variant: the ports are asked for as signed numbers, never matched.
valueOtherKind(s, n) ==
  IF s[n].kind = Defaults[n].kind /\ s[n].kind # "uint" THEN s[n].text ELSE Fallback(n)

\* value(name, default): a setting of another kind is passed over.
value(s, n) == IF s[n].kind = Defaults[n].kind THEN s[n].text ELSE Fallback(n)

\* The port a server listens on, which config.port keeps in 16 bits.
Port(s, n) == NumberOf[value(s, n)] % 2^16

-------------------------------------------------------------------------------
(* The file.                                                                 *)

Typo == "typo"
NoFile == [n \in {Typo} |-> Json("none", "")]

JsonValues ==
  {Json("string", t) : t \in Texts} \cup {Json("uint", DumpOf[NumberOf[t]]) : t \in Texts \cap DOMAIN NumberOf}
    \cup {Json("bool", t) : t \in {"true", "false"}} \cup {Json("null", "null")}

\* Faulty variant: the settings are what the file has.
loadOnlyFile(s, f) == f

\* load: every item must be registered and valid.  The values are taken over as
\* they are.  An item that is not makes load throw, in the middle.
Loads(f) ==
  \A n \in DOMAIN f : n \in DOMAIN Registered /\ isValid(Registered[n].validator, f[n].text)
load(s, f) == [n \in DOMAIN s |-> IF n \in DOMAIN f THEN f[n] ELSE s[n]]

\* The user writes a file, while the program does not run.
Edit ==
  /\ phase = "off"
  /\ \E ns \in SUBSET (Names \cup {Typo}) :
       /\ Cardinality(ns) <= MaxItems
       /\ file' \in [ns -> JsonValues]
  /\ UNCHANGED <<settings, phase, last, calls>>

NoCall == [op |-> "none", name |-> Typo, result |-> "ok"]

\* initSettings: the file is loaded, or created.  What load throws ends the
\* process.
initSettings ==
  /\ phase = "off"
  /\ IF file = NoFile
       THEN /\ settings' = Defaults
            /\ file' = settings'
            /\ phase' = "loaded"
       ELSE /\ settings' = IF Loads(file) THEN load(Defaults, file) ELSE Defaults
            /\ phase' = IF Loads(file) THEN "loaded" ELSE "refused"
            /\ UNCHANGED file
  /\ UNCHANGED <<last, calls>>

\* run(): without an address to mine for, the process ends.
run ==
  /\ phase = "loaded"
  /\ phase' = IF value(settings, "mining.miner.address") \in {"", NoAddress}
                THEN "ended" ELSE "running"
  /\ UNCHANGED <<file, settings, last, calls>>

\* The process ends, and its settings with it.
Exit ==
  /\ phase \notin {"off", "loaded"}
  /\ phase' = "off"
  /\ settings' = Defaults
  /\ last' = NoCall
  /\ calls' = 0
  /\ UNCHANGED file

-------------------------------------------------------------------------------
(* The other operations of the class.                                        *)

Calls == phase = "loaded" /\ calls < MaxCalls /\ calls' = calls + 1

\* The value set makes of a text goes by the kind of the value that is there;
\* a text that cannot be converted makes it throw.
Converts(kind, text) ==
  \/ kind = "string"
  \/ kind = "uint" /\ text \in DOMAIN NumberOf
  \/ kind = "bool" /\ isBoolean(text)
Converted(kind, text) ==
  Json(kind, CASE kind = "bool" -> convertToBool(text)
               [] kind = "uint" -> DumpOf[NumberOf[text]]
               [] OTHER         -> text)

Calling(op, n, result) == last' = [op |-> op, name |-> n, result |-> result]

\* Faulty variant: the text is not validated.
setUnchecked(n, text) ==
  /\ Calls
  /\ IF Registered[n].validator = "none"
       THEN Calling("set", n, "undefined") /\ phase' = "undefined" /\ UNCHANGED settings
     ELSE IF Converts(settings[n].kind, text)
       THEN /\ settings' = [settings EXCEPT ![n] = Converted(@.kind, text)]
            /\ Calling("set", n, "ok") /\ UNCHANGED phase
     ELSE Calling("set", n, "threw") /\ UNCHANGED <<settings, phase>>
  /\ UNCHANGED file

\* set: validation, then conversion.  A setting without validator is a call
\* through a null pointer.
set(n, text) ==
  /\ Calls
  /\ IF Registered[n].validator = "none"
       THEN Calling("set", n, "undefined") /\ phase' = "undefined" /\ UNCHANGED settings
     ELSE IF isValid(Registered[n].validator, text) /\ Converts(settings[n].kind, text)
       THEN /\ settings' = [settings EXCEPT ![n] = Converted(@.kind, text)]
            /\ Calling("set", n, "ok") /\ UNCHANGED phase
     ELSE Calling("set", n, "threw") /\ UNCHANGED <<settings, phase>>
  /\ UNCHANGED file

\* setNoThrow returns false for a text that is not valid.
setNoThrow(n, text) ==
  /\ Calls
  /\ IF settings[n].kind = "null"
       THEN Calling("setNoThrow", n, "threw") /\ UNCHANGED <<settings, phase>>
     ELSE IF Registered[n].validator = "none"
       THEN Calling("setNoThrow", n, "undefined") /\ phase' = "undefined" /\ UNCHANGED settings
     ELSE IF ~isValid(Registered[n].validator, text)
       THEN Calling("setNoThrow", n, "false") /\ UNCHANGED <<settings, phase>>
     ELSE IF Converts(settings[n].kind, text)
       THEN /\ settings' = [settings EXCEPT ![n] = Converted(@.kind, text)]
            /\ Calling("setNoThrow", n, "ok") /\ UNCHANGED phase
     ELSE Calling("setNoThrow", n, "threw") /\ UNCHANGED <<settings, phase>>
  /\ UNCHANGED file

\* reset: the defaults again.
reset ==
  /\ Calls
  /\ settings' = Defaults
  /\ last' = NoCall
  /\ UNCHANGED <<file, phase>>

\* save.
save ==
  /\ Calls
  /\ file' = settings
  /\ UNCHANGED <<settings, phase, last>>

-------------------------------------------------------------------------------
(* The specification.                                                        *)

Init ==
  /\ file = NoFile
  /\ settings = Defaults
  /\ phase = "off"
  /\ last = NoCall
  /\ calls = 0

Next ==
  \/ Edit \/ initSettings \/ run \/ Exit
  \/ \E n \in Names, text \in Texts : set(n, text) \/ setNoThrow(n, text)
  \/ reset \/ save

Spec == Init /\ [][Next]_vars

-------------------------------------------------------------------------------
(* Properties.                                                               *)

\* Every variable holds a value of its kind; every registered setting has a
\* value in every process, whatever was in the file.
TypeOK ==
  /\ DOMAIN settings = DOMAIN Registered
  /\ \A n \in DOMAIN settings :
       settings[n].kind \in {"bool", "uint", "string", "null"}
  /\ phase \in {"off", "loaded", "running", "refused", "ended", "undefined"}
  /\ last.result \in {"ok", "false", "threw", "undefined"}
  /\ calls \in 0..MaxCalls

\* What save writes, load takes: at any time, after any mix of loading, setting
\* and resetting, a file saved now would be accepted by the next process and give
\* it these settings.  A program never locks itself out by its own file.
SavedFileLoads ==
  phase \in {"loaded", "running"} => Loads(settings) /\ load(Defaults, settings) = settings

\* setNoThrow keeps what its name says on every setting that has the kind it was
\* registered with: only a value of another kind that load took over makes it
\* throw.  And a call ends in the null validator for logs.level alone.
ThrowsOnlyOnForeignKinds ==
  /\ last.op = "setNoThrow" /\ last.result = "threw"
       => settings[last.name].kind # Defaults[last.name].kind
  /\ last.result = "undefined" => last.name = "logs.level"

\* A port the user writes is the port the server listens on, or one of two things
\* is the matter with it: it is not written as a number, and the default is used
\* instead, or it is above portMax, and is cut to 16 bits.  load accepts both, as
\* the range of the validator is the one of the file size.  (The program itself
\* calls none of set, setNoThrow and reset: calls is 0 in it.)
ListensOnFilePort ==
  phase = "running" /\ calls = 0 =>
    \A n \in {"rest.port", "websocket.port"} \cap DOMAIN file :
      LET given == NumberOf[file[n].text]
      IN  \/ Port(settings, n) = given
          \/ file[n].kind = "string" /\ Port(settings, n) = NumberOf[Defaults[n].text]
          \/ given > portMax
===============================================================================
