----------------------------- MODULE SettingsProofs -----------------------------
(***************************************************************************)
(* Proofs about Settings, for all texts, names and bounds: the settings    *)
(* keep their kinds, what save writes load takes, setNoThrow throws only   *)
(* for values of a foreign kind, and a server listens on the port of the   *)
(* file but in two cases.                                                  *)
(***************************************************************************)
EXTENDS Settings, TLAPS

-------------------------------------------------------------------------------
(* The inductive invariant.                                                  *)

Known == DOMAIN Registered

\* What a value of a kind looks like, wherever it comes from.
Kept(v) ==
  /\ v.kind \in {"bool", "uint", "string", "null"}
  /\ v.kind = "bool" => v.text \in {"true", "false"}
  /\ v.kind = "null" => v.text = "null"

\* Every registered setting has a value, and the file has values, too.
Values ==
  /\ settings = [n \in Known |-> settings[n]]
  /\ \A n \in Known : Kept(settings[n])
  /\ \A n \in DOMAIN file : n # Typo => Kept(file[n])

\* Every setting of a process that loaded its file passes its validator.
AllValid ==
  phase \in {"loaded", "running"} =>
    \A n \in Known : isValid(Registered[n].validator, settings[n].text)

\* A process has made no calls before it starts, and no more than the bound.
CallsCounted ==
  /\ phase \in {"off", "loaded", "running", "refused", "ended", "undefined"}
  /\ phase = "off" => last = NoCall /\ calls = 0
  /\ calls \in 0..MaxCalls

\* The call remembered is one for a registered setting.
LastCall ==
  /\ last.result \in {"ok", "false", "threw", "undefined"}
  /\ last.op \in {"none", "set", "setNoThrow"}
  /\ last.op # "none" => last.name \in Known
  /\ last.op = "none" => last.result = "ok"

\* Before any call, the settings are those of the file where it has them.
FromFile ==
  phase \in {"loaded", "running"} /\ calls = 0 =>
    \A n \in Known \cap DOMAIN file : settings[n] = file[n]

SettingsInv ==
  /\ Values
  /\ AllValid
  /\ CallsCounted
  /\ LastCall
  /\ FromFile
  /\ ThrowsOnlyOnForeignKinds

-------------------------------------------------------------------------------
(* What is registered.                                                       *)

\* The numbers some texts stand for.
LEMMA NumbersOf ==
  /\ NumberOf["5242880"] = 5242880 /\ NumberOf["27182"] = 27182 /\ NumberOf["14142"] = 14142
  /\ {"5242880", "27182", "14142"} \subseteq DOMAIN NumberOf
  /\ {"true", "false", "null"} \cap DOMAIN NumberOf = {}
<1>1. /\ NumberOf["5242880"] = 5242880 /\ NumberOf["27182"] = 27182 /\ NumberOf["14142"] = 14142
      /\ {"5242880", "27182", "14142"} \subseteq DOMAIN NumberOf
  BY DefaultNumbersAssumption, SMT
<1>2. {"true", "false", "null"} \cap DOMAIN NumberOf = {}
  BY WordsAssumption, Zenon
<1> QED
  BY <1>1, <1>2, SMT

\* The bounds are numbers in this order, and a port has 16 bits.
LEMMA Bounds ==
  /\ filesizeMin \in Int /\ filesizeMax \in Int /\ portMax \in Int
  /\ 0 =< filesizeMin /\ filesizeMin =< 14142 /\ 27182 =< portMax
  /\ 5242880 =< filesizeMax
  /\ portMax < 2^16
  BY SMT DEF filesizeMin, filesizeMax, portMax

\* A setting has the validator of its kind, its default passes it, and logs.level
\* alone has none.
LEMMA RegisteredFits ==
  ASSUME NEW n \in Known
  PROVE  /\ Registered[n].default.kind \in {"bool", "uint", "string"}
         /\ Registered[n].default.kind = "bool" => Registered[n].validator = "bool"
         /\ Registered[n].default.kind = "uint" => Registered[n].validator = "range"
         /\ Registered[n].validator \in {"none", "not_empty", "range", "bool"}
         /\ Registered[n].validator = "none" => n = "logs.level"
         /\ Kept(Registered[n].default)
         /\ isValid(Registered[n].validator, Registered[n].default.text)
<1>1. \A t \in {"true", "false"} : BoolValidator(t)
  BY DEF BoolValidator, isBoolean, trueStrings, falseStrings
<1>2. \A t \in {"5242880", "27182", "14142"} : RangeValidator(t)
  <2>1. \A k \in {5242880, 27182, 14142} : k \in filesizeMin..filesizeMax
    BY Bounds, SMT
  <2> QED
    BY <2>1, NumbersOf, SMT DEF RangeValidator
<1>3. \A t \in {NoAddress, "home"} : NotEmptyValidator(t)
  BY DEF NotEmptyValidator, NoAddress
<1>4. \/ \E t \in {"true", "false"} : Registered[n] = registerBool(t)
      \/ \E t \in {"5242880", "27182", "14142"} : Registered[n] = registerUInt(t)
      \/ \E t \in {NoAddress, "home"} : Registered[n] = registerString(t, "not_empty")
      \/ n = "logs.level" /\ Registered[n] = registerString("info", "none")
  BY DEF Registered, Known
<1>5. CASE \E t \in {"true", "false"} : Registered[n] = registerBool(t)
  BY <1>1, <1>5 DEF registerBool, Json, Kept, isValid
<1>6. CASE \E t \in {"5242880", "27182", "14142"} : Registered[n] = registerUInt(t)
  BY <1>2, <1>6 DEF registerUInt, Json, Kept, isValid
<1>7. CASE \E t \in {NoAddress, "home"} : Registered[n] = registerString(t, "not_empty")
  BY <1>3, <1>7 DEF registerString, Json, Kept, isValid
<1>8. CASE n = "logs.level" /\ Registered[n] = registerString("info", "none")
  BY <1>8 DEF registerString, Json, Kept, isValid
<1> QED
  BY <1>4, <1>5, <1>6, <1>7, <1>8

\* The defaults are settings.
LEMMA DefaultsFit ==
  /\ Defaults = [n \in Known |-> Defaults[n]]
  /\ \A n \in Known : /\ Kept(Defaults[n])
                      /\ isValid(Registered[n].validator, Defaults[n].text)
                      /\ Defaults[n] = Registered[n].default
  BY RegisteredFits DEF Defaults, Known

\* The ports are numbers, and the defaults fit in 16 bits.
LEMMA PortsFit ==
  ASSUME NEW n \in {"rest.port", "websocket.port"}
  PROVE  /\ n \in Known
         /\ Registered[n].validator = "range"
         /\ Defaults[n].kind = "uint"
         /\ Fallback(n) = Defaults[n].text
         /\ NumberOf[Defaults[n].text] \in 0..portMax
<1>1. n \in Known /\ \E t \in {"27182", "14142"} : Registered[n] = registerUInt(t)
  BY DEF Registered, Known
<1>2. PICK t \in {"27182", "14142"} : Registered[n] = registerUInt(t)
  BY <1>1
<1>3. /\ Registered[n].validator = "range"
      /\ Defaults[n].kind = "uint" /\ Defaults[n].text = t
      /\ Registered[n].default.kind = "uint"
  BY <1>1, <1>2 DEF registerUInt, Json, Defaults, Known
<1>4. Fallback(n) = Defaults[n].text
  BY <1>3 DEF Fallback
<1>5. NumberOf[t] \in 0..portMax
  BY <1>2, NumbersOf, Bounds, SMT
<1> QED
  BY <1>1, <1>3, <1>4, <1>5

\* What the user writes has a kind, and a text that goes with it.
LEMMA WrittenKept ==
  ASSUME NEW v \in JsonValues
  PROVE  Kept(v)
  BY DEF JsonValues, Json, Kept

\* A text set converts passes the validator if it did before and what is there does.
LEMMA ConvertedFits ==
  ASSUME NEW n \in Known, NEW v, NEW text, Kept(v),
         isValid(Registered[n].validator, v.text), isValid(Registered[n].validator, text),
         Converts(v.kind, text)
  PROVE  /\ Kept(Converted(v.kind, text))
         /\ Converted(v.kind, text).kind = v.kind
         /\ isValid(Registered[n].validator, Converted(v.kind, text).text)
<1>1. v.kind \in {"bool", "uint", "string"}
  BY DEF Converts
<1>2. /\ Converted(v.kind, text).kind = v.kind
      /\ v.kind = "bool" => Converted(v.kind, text).text = convertToBool(text)
      /\ v.kind = "uint" => Converted(v.kind, text).text = DumpOf[NumberOf[text]]
      /\ v.kind = "string" => Converted(v.kind, text).text = text
  BY <1>1 DEF Converted, Json
<1>3. CASE v.kind = "bool"
  <2>1. v.text \in {"true", "false"} /\ convertToBool(text) \in {"true", "false"}
    BY <1>3 DEF Kept, convertToBool
  <2>2. Registered[n].validator # "range"
    BY <2>1, NumbersOf, SMT DEF isValid, RangeValidator
  <2>3. isValid(Registered[n].validator, convertToBool(text))
    BY <2>1, <2>2, RegisteredFits DEF isValid, NotEmptyValidator, BoolValidator, isBoolean,
      trueStrings, falseStrings
  <2> QED
    BY <1>2, <1>3, <2>1, <2>3 DEF Kept
<1>4. CASE v.kind = "uint"
  <2> DEFINE dump == DumpOf[NumberOf[text]]
  <2>1. text \in DOMAIN NumberOf /\ dump \in DOMAIN NumberOf /\ NumberOf[dump] = NumberOf[text]
    BY <1>4, NumberOfAssumption, SMT DEF Converts
  <2>2. Registered[n].validator = "range" => isValid(Registered[n].validator, dump)
    BY <2>1 DEF isValid, RangeValidator
  <2>3. Registered[n].validator = "not_empty" => isValid(Registered[n].validator, dump)
    BY <2>1, WordsAssumption, Zenon DEF isValid, NotEmptyValidator
  <2>4. Registered[n].validator = "bool" => isValid(Registered[n].validator, dump)
    <3> SUFFICES ASSUME Registered[n].validator = "bool"
                 PROVE  isValid(Registered[n].validator, dump)
      OBVIOUS
    <3>1. text \in {"0", "1"}
      BY <2>1, WordsAssumption, Zenon DEF isValid, BoolValidator, isBoolean, trueStrings,
        falseStrings
    <3> QED
      BY <2>1, <3>1, NumberOfAssumption, SMT
  <2>5. Registered[n].validator = "none" => isValid(Registered[n].validator, dump)
    BY DEF isValid
  <2> QED
    BY <1>2, <1>4, <2>2, <2>3, <2>4, <2>5, RegisteredFits DEF Kept
<1>5. CASE v.kind = "string"
  BY <1>2, <1>5 DEF Kept
<1> QED
  BY <1>1, <1>3, <1>4, <1>5

\* setNoThrow throws only for a value that is not of the registered kind.
LEMMA ThrowsForeign ==
  ASSUME NEW n \in Known, NEW v, NEW text, Kept(v),
         \/ v.kind = "null"
         \/ isValid(Registered[n].validator, text) /\ ~Converts(v.kind, text)
  PROVE  v.kind # Defaults[n].kind
<1>1. SUFFICES ASSUME v.kind = Defaults[n].kind PROVE FALSE
  OBVIOUS
<1>2. /\ v.kind \in {"bool", "uint", "string"}
      /\ v.kind = "bool" => Registered[n].validator = "bool"
      /\ v.kind = "uint" => Registered[n].validator = "range"
  BY <1>1, RegisteredFits, DefaultsFit
<1> QED
  BY <1>2 DEF Converts, isValid, RangeValidator, BoolValidator

-------------------------------------------------------------------------------
(* The steps.                                                                *)

\* The user writes a file.
LEMMA EditInv ==
  ASSUME SettingsInv, Edit
  PROVE  SettingsInv'
<1>1. phase = "off" /\ UNCHANGED <<settings, phase, last, calls>>
  BY DEF Edit
<1>2. /\ Values /\ AllValid /\ CallsCounted /\ LastCall /\ ThrowsOnlyOnForeignKinds
  BY DEF SettingsInv
<1>3. PICK ns \in SUBSET (Names \cup {Typo}) : file' \in [ns -> JsonValues]
  BY DEF Edit
<1>4. \A n \in DOMAIN file' : Kept(file'[n])
  BY <1>3, WrittenKept
<1>5. Values'
  BY <1>1, <1>2, <1>4 DEF Values
<1>6. AllValid' /\ CallsCounted' /\ LastCall' /\ FromFile'
  BY <1>1, <1>2 DEF AllValid, CallsCounted, LastCall, FromFile
<1>7. ThrowsOnlyOnForeignKinds'
  BY <1>1, <1>2 DEF ThrowsOnlyOnForeignKinds
<1> QED
  BY <1>5, <1>6, <1>7 DEF SettingsInv

\* The process starts: the settings are those of the file, or the defaults.
LEMMA initSettingsInv ==
  ASSUME SettingsInv, initSettings
  PROVE  SettingsInv'
<1>1. phase = "off" /\ UNCHANGED <<last, calls>>
  BY DEF initSettings
<1>2. /\ Values /\ CallsCounted /\ LastCall
  BY DEF SettingsInv
<1>3. last = NoCall /\ calls = 0
  BY <1>1, <1>2 DEF CallsCounted
<1>4. CASE settings' = Defaults /\ file' = settings' /\ phase' = "loaded"
  <2>1. Values' /\ AllValid' /\ FromFile'
    BY <1>4, DefaultsFit DEF Values, AllValid, FromFile, Known
  <2> QED
    BY <1>1, <1>2, <1>3, <1>4, <2>1 DEF SettingsInv, CallsCounted, LastCall,
      ThrowsOnlyOnForeignKinds, NoCall
<1>5. CASE Loads(file) /\ settings' = load(Defaults, file) /\ phase' = "loaded" /\ file' = file
  <2>1. /\ settings' = [n \in Known |-> settings'[n]]
        /\ \A n \in Known : settings'[n] = IF n \in DOMAIN file THEN file[n] ELSE Defaults[n]
    BY <1>5, DefaultsFit DEF load
  <2>2. \A n \in DOMAIN file : n \in Known /\ isValid(Registered[n].validator, file[n].text)
    BY <1>5 DEF Loads, Known
  <2>3. Typo \notin Known
    BY DEF Known, Registered, Typo
  <2>4. \A n \in Known : /\ Kept(settings'[n])
                         /\ isValid(Registered[n].validator, settings'[n].text)
    BY <1>2, <2>1, <2>2, <2>3, DefaultsFit DEF Values
  <2>5. Values' /\ AllValid' /\ FromFile'
    BY <1>2, <1>5, <2>1, <2>4 DEF Values, AllValid, FromFile
  <2> QED
    BY <1>1, <1>2, <1>3, <1>5, <2>5 DEF SettingsInv, CallsCounted, LastCall,
      ThrowsOnlyOnForeignKinds, NoCall
<1>6. CASE settings' = Defaults /\ phase' = "refused" /\ file' = file
  <2>1. Values' /\ AllValid' /\ FromFile'
    BY <1>2, <1>6, DefaultsFit DEF Values, AllValid, FromFile
  <2> QED
    BY <1>1, <1>2, <1>3, <1>6, <2>1 DEF SettingsInv, CallsCounted, LastCall,
      ThrowsOnlyOnForeignKinds, NoCall
<1> QED
  BY <1>4, <1>5, <1>6 DEF initSettings

\* The process runs, or ends for want of an address.
LEMMA runInv ==
  ASSUME SettingsInv, run
  PROVE  SettingsInv'
<1>1. /\ phase = "loaded" /\ phase' \in {"ended", "running"}
      /\ UNCHANGED <<file, settings, last, calls>>
  BY DEF run
<1>2. /\ Values /\ AllValid /\ CallsCounted /\ LastCall /\ FromFile /\ ThrowsOnlyOnForeignKinds
  BY DEF SettingsInv
<1>3. Values' /\ AllValid' /\ CallsCounted' /\ LastCall' /\ FromFile'
  BY <1>1, <1>2 DEF Values, AllValid, CallsCounted, LastCall, FromFile
<1>4. ThrowsOnlyOnForeignKinds'
  BY <1>1, <1>2 DEF ThrowsOnlyOnForeignKinds
<1> QED
  BY <1>3, <1>4 DEF SettingsInv

\* The process ends.
LEMMA ExitInv ==
  ASSUME SettingsInv, Exit
  PROVE  SettingsInv'
<1>1. /\ phase' = "off" /\ settings' = Defaults /\ last' = NoCall /\ calls' = 0
      /\ UNCHANGED file
  BY DEF Exit
<1>2. Values
  BY DEF SettingsInv
<1>3. Values' /\ AllValid' /\ FromFile'
  BY <1>1, <1>2, DefaultsFit DEF Values, AllValid, FromFile
<1>4. CallsCounted' /\ LastCall' /\ ThrowsOnlyOnForeignKinds'
  BY <1>1, SettingsBoundsAssumption DEF CallsCounted, LastCall, ThrowsOnlyOnForeignKinds, NoCall
<1> QED
  BY <1>3, <1>4 DEF SettingsInv

\* The four ways a call of set or setNoThrow comes out.
LEMMA CallInv ==
  ASSUME SettingsInv, Calls, UNCHANGED file, NEW n \in Known, NEW text,
         NEW op \in {"set", "setNoThrow"}, NEW result, Calling(op, n, result),
         \/ /\ result = "ok" /\ UNCHANGED phase
            /\ isValid(Registered[n].validator, text) /\ Converts(settings[n].kind, text)
            /\ settings' = [settings EXCEPT ![n] = Converted(@.kind, text)]
         \/ /\ result = "undefined" /\ phase' = "undefined" /\ UNCHANGED settings
            /\ Registered[n].validator = "none"
         \/ result = "false" /\ UNCHANGED <<settings, phase>>
         \/ /\ result = "threw" /\ UNCHANGED <<settings, phase>>
            /\ op = "setNoThrow" => settings[n].kind # Defaults[n].kind
  PROVE  SettingsInv'
<1>1. /\ phase = "loaded" /\ calls < MaxCalls /\ calls' = calls + 1
      /\ last' = [op |-> op, name |-> n, result |-> result]
  BY DEF Calls, Calling
<1>2. /\ Values /\ AllValid /\ CallsCounted
  BY DEF SettingsInv
<1>3. result \in {"ok", "false", "threw", "undefined"} /\ phase' \in {"loaded", "undefined"}
  BY <1>1
<1>4. CallsCounted' /\ LastCall'
  BY <1>1, <1>2, <1>3, SettingsBoundsAssumption DEF CallsCounted, LastCall
<1>5. FromFile'
  BY <1>1, <1>2, SettingsBoundsAssumption DEF FromFile, CallsCounted
<1>6. /\ settings' = [m \in Known |-> settings'[m]]
      /\ \A m \in Known : m # n => settings'[m] = settings[m]
      /\ result # "ok" => settings' = settings
      /\ result = "ok" => settings'[n] = Converted(settings[n].kind, text)
  BY <1>2 DEF Values
<1>7. /\ Kept(settings'[n])
      /\ phase' = "loaded" => isValid(Registered[n].validator, settings'[n].text)
  <2>1. Kept(settings[n]) /\ isValid(Registered[n].validator, settings[n].text)
    BY <1>1, <1>2 DEF Values, AllValid
  <2>2. CASE result = "ok"
    BY <1>6, <2>1, <2>2, ConvertedFits
  <2>3. CASE result # "ok"
    BY <1>6, <2>1, <2>3
  <2> QED
    BY <2>2, <2>3
<1>8. Values'
  BY <1>2, <1>6, <1>7 DEF Values
<1>9. AllValid'
  BY <1>1, <1>2, <1>3, <1>6, <1>7 DEF AllValid
<1>10. ThrowsOnlyOnForeignKinds'
  <2>1. last'.result = "undefined" => last'.name = "logs.level"
    BY <1>1, RegisteredFits
  <2>2. last'.op = "setNoThrow" /\ last'.result = "threw"
          => settings'[last'.name].kind # Defaults[last'.name].kind
    BY <1>1
  <2> QED
    BY <2>1, <2>2 DEF ThrowsOnlyOnForeignKinds
<1> QED
  BY <1>4, <1>5, <1>8, <1>9, <1>10 DEF SettingsInv

\* set.
LEMMA setInv ==
  ASSUME SettingsInv, NEW n \in Names, NEW text \in Texts, set(n, text)
  PROVE  SettingsInv'
<1>1. n \in Known
  BY NamesAssumption DEF Known
<1>2. \/ /\ Calling("set", n, "ok") /\ UNCHANGED phase
         /\ isValid(Registered[n].validator, text) /\ Converts(settings[n].kind, text)
         /\ settings' = [settings EXCEPT ![n] = Converted(@.kind, text)]
      \/ /\ Calling("set", n, "undefined") /\ phase' = "undefined" /\ UNCHANGED settings
         /\ Registered[n].validator = "none"
      \/ Calling("set", n, "threw") /\ UNCHANGED <<settings, phase>>
  BY DEF set
<1>3. Calls /\ UNCHANGED file
  BY DEF set
<1> QED
  BY <1>1, <1>2, <1>3, CallInv

\* setNoThrow.
LEMMA setNoThrowInv ==
  ASSUME SettingsInv, NEW n \in Names, NEW text \in Texts, setNoThrow(n, text)
  PROVE  SettingsInv'
<1>1. n \in Known
  BY NamesAssumption DEF Known
<1>2. Kept(settings[n])
  BY <1>1 DEF SettingsInv, Values
<1>3. \/ /\ Calling("setNoThrow", n, "ok") /\ UNCHANGED phase
         /\ isValid(Registered[n].validator, text) /\ Converts(settings[n].kind, text)
         /\ settings' = [settings EXCEPT ![n] = Converted(@.kind, text)]
      \/ /\ Calling("setNoThrow", n, "undefined") /\ phase' = "undefined" /\ UNCHANGED settings
         /\ Registered[n].validator = "none"
      \/ Calling("setNoThrow", n, "false") /\ UNCHANGED <<settings, phase>>
      \/ /\ Calling("setNoThrow", n, "threw") /\ UNCHANGED <<settings, phase>>
         /\ \/ settings[n].kind = "null"
            \/ isValid(Registered[n].validator, text) /\ ~Converts(settings[n].kind, text)
  BY DEF setNoThrow
<1>4. Calls /\ UNCHANGED file
  BY DEF setNoThrow
<1> QED
  BY <1>1, <1>2, <1>3, <1>4, ThrowsForeign, CallInv

\* reset.
LEMMA resetInv ==
  ASSUME SettingsInv, reset
  PROVE  SettingsInv'
<1>1. /\ phase = "loaded" /\ calls < MaxCalls /\ calls' = calls + 1
      /\ settings' = Defaults /\ last' = NoCall /\ UNCHANGED <<file, phase>>
  BY DEF reset, Calls
<1>2. Values /\ CallsCounted
  BY DEF SettingsInv
<1>3. Values' /\ AllValid'
  BY <1>1, <1>2, DefaultsFit DEF Values, AllValid
<1>4. CallsCounted' /\ FromFile'
  BY <1>1, <1>2, SettingsBoundsAssumption DEF CallsCounted, FromFile
<1>5. LastCall' /\ ThrowsOnlyOnForeignKinds'
  BY <1>1 DEF LastCall, ThrowsOnlyOnForeignKinds, NoCall
<1> QED
  BY <1>3, <1>4, <1>5 DEF SettingsInv

\* save.
LEMMA saveInv ==
  ASSUME SettingsInv, save
  PROVE  SettingsInv'
<1>1. /\ phase = "loaded" /\ calls < MaxCalls /\ calls' = calls + 1
      /\ file' = settings /\ UNCHANGED <<settings, phase, last>>
  BY DEF save, Calls
<1>2. Values /\ AllValid /\ CallsCounted /\ LastCall /\ ThrowsOnlyOnForeignKinds
  BY DEF SettingsInv
<1>3. Values' /\ AllValid'
  BY <1>1, <1>2 DEF Values, AllValid
<1>4. CallsCounted' /\ FromFile'
  BY <1>1, <1>2, SettingsBoundsAssumption DEF CallsCounted, FromFile
<1>5. LastCall' /\ ThrowsOnlyOnForeignKinds'
  BY <1>1, <1>2 DEF LastCall, ThrowsOnlyOnForeignKinds
<1> QED
  BY <1>3, <1>4, <1>5 DEF SettingsInv

-------------------------------------------------------------------------------
(* The results.                                                              *)

\* The invariant holds in every state.
LEMMA SettingsInvariant == Spec => []SettingsInv
<1>1. Init => SettingsInv
  <2> SUFFICES ASSUME Init
               PROVE  SettingsInv
    OBVIOUS
  <2>1. Values
    BY DefaultsFit DEF Init, Values, NoFile
  <2>2. AllValid /\ CallsCounted /\ LastCall /\ FromFile /\ ThrowsOnlyOnForeignKinds
    BY SettingsBoundsAssumption DEF Init, AllValid, CallsCounted, LastCall, FromFile, NoCall,
      ThrowsOnlyOnForeignKinds
  <2> QED
    BY <2>1, <2>2 DEF SettingsInv
<1>2. SettingsInv /\ [Next]_vars => SettingsInv'
  <2> SUFFICES ASSUME SettingsInv, [Next]_vars
               PROVE  SettingsInv'
    OBVIOUS
  <2>1. CASE UNCHANGED vars
    BY <2>1 DEF vars, SettingsInv, Values, AllValid, CallsCounted, LastCall, FromFile,
      ThrowsOnlyOnForeignKinds
  <2>2. CASE Next
    BY <2>2, EditInv, initSettingsInv, runInv, ExitInv, setInv, setNoThrowInv, resetInv, saveInv
      DEF Next
  <2> QED
    BY <2>1, <2>2
<1> QED
  BY <1>1, <1>2, PTL DEF Spec

\* For all names, texts and bounds: every registered setting has a value of a known
\* kind in every process, whatever was in the file.
THEOREM SettingsTypes == Spec => []TypeOK
<1>1. SettingsInv => TypeOK
  BY DEF SettingsInv, Values, Kept, CallsCounted, LastCall, TypeOK, Known
<1> QED
  BY <1>1, SettingsInvariant, PTL

\* For all names, texts and bounds: after any mix of loading, setting and resetting, a
\* file saved now is accepted by load, which makes the same settings of it.
THEOREM OwnFileLoads == Spec => []SavedFileLoads
<1>1. SettingsInv => SavedFileLoads
  <2> SUFFICES ASSUME SettingsInv, phase \in {"loaded", "running"}
               PROVE  Loads(settings) /\ load(Defaults, settings) = settings
    BY DEF SavedFileLoads
  <2>1. Values /\ AllValid
    BY DEF SettingsInv
  <2>2. settings = [n \in Known |-> settings[n]] /\ DOMAIN settings = Known
    BY <2>1 DEF Values
  <2>3. Loads(settings)
    BY <2>1, <2>2 DEF AllValid, Loads, Known
  <2>4. load(Defaults, settings) = [n \in Known |-> settings[n]]
    BY <2>2, DefaultsFit DEF load
  <2> QED
    BY <2>2, <2>3, <2>4
<1> QED
  BY <1>1, SettingsInvariant, PTL

\* For all names, texts and bounds: setNoThrow throws only for a setting to which load
\* gave a value of another kind, and logs.level alone has no validator to call.
THEOREM NoThrowKeepsItsName == Spec => []ThrowsOnlyOnForeignKinds
<1>1. SettingsInv => ThrowsOnlyOnForeignKinds
  BY DEF SettingsInv
<1> QED
  BY <1>1, SettingsInvariant, PTL

\* For all names, texts and bounds: a server listens on the port the file gives, or
\* the port is no JSON number, or it is above portMax.
THEOREM ListensThere == Spec => []ListensOnFilePort
<1>1. SettingsInv => ListensOnFilePort
  <2> SUFFICES ASSUME SettingsInv, phase = "running", calls = 0,
                      NEW n \in {"rest.port", "websocket.port"} \cap DOMAIN file,
                      ~(NumberOf[file[n].text] > portMax)
               PROVE  \/ Port(settings, n) = NumberOf[file[n].text]
                      \/ /\ file[n].kind = "string"
                         /\ Port(settings, n) = NumberOf[Defaults[n].text]
    BY DEF ListensOnFilePort
  <2>1. Values /\ AllValid /\ FromFile
    BY DEF SettingsInv
  <2>2. /\ n \in Known /\ Registered[n].validator = "range" /\ Defaults[n].kind = "uint"
        /\ Fallback(n) = Defaults[n].text /\ NumberOf[Defaults[n].text] \in 0..portMax
    BY PortsFit
  <2>3. settings[n] = file[n] /\ Kept(file[n])
    BY <2>1, <2>2 DEF FromFile, Values
  <2>4. RangeValidator(file[n].text)
    BY <2>1, <2>2, <2>3 DEF AllValid, isValid
  <2>5. NumberOf[file[n].text] \in 0..portMax /\ file[n].text \notin {"true", "false", "null"}
    <3>1. NumberOf[file[n].text] \in filesizeMin..filesizeMax /\ file[n].text \in DOMAIN NumberOf
      BY <2>4 DEF RangeValidator
    <3>2. NumberOf[file[n].text] \in 0..portMax
      BY <3>1, Bounds, SMT
    <3> QED
      BY <3>1, <3>2, NumbersOf, SMT
  <2>6. file[n].kind \in {"uint", "string"}
    BY <2>3, <2>5 DEF Kept
  <2>7. \A k \in 0..portMax : k % 2^16 = k
    BY Bounds, SMT
  <2>8. CASE file[n].kind = "uint"
    <3>1. value(settings, n) = file[n].text
      BY <2>2, <2>3, <2>8 DEF value
    <3> QED
      BY <2>5, <2>7, <3>1 DEF Port
  <2>9. CASE file[n].kind = "string"
    <3>1. value(settings, n) = Defaults[n].text
      BY <2>2, <2>3, <2>9 DEF value
    <3> QED
      BY <2>2, <2>7, <2>9, <3>1 DEF Port
  <2> QED
    BY <2>6, <2>8, <2>9
<1> QED
  BY <1>1, SettingsInvariant, PTL
===============================================================================
