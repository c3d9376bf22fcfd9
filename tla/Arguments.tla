------------------------------ MODULE Arguments ------------------------------
(***************************************************************************)
(* What add and edit make of their arguments before anything is sent       *)
(* (commands/item.rs, pwgen.rs, totp.rs), and how init and passwd come to  *)
(* a new master password (commands/password_policy.rs): option after       *)
(* option, with the questions they ask at the terminal in between.         *)
(*                                                                         *)
(* A name, a value and a path are model values or short texts; what the    *)
(* agent says to the request is in module Vault, the conversation of the   *)
(* command in module Commands.                                             *)
(***************************************************************************)
EXTENDS Naturals, Sequences, FiniteSets, Functions

CONSTANTS
    Orders,         \* command lines
    Entries,        \* what the user may type as a password or as a value
    MinLength,      \* MIN_MASTER_PASSWORD_CHARS
    MaxLength,      \* the longest password that is generated, 4096
    Words,          \* WORDS
    Symbols, Upper, Lower, Digits, HexDigits,
    MaxAnswers      \* bound: answers to one question of yes or no

(***************************************************************************)
(* The command line lists its fields and files, and knows no other options *)
(* than these.  What is typed has a length.                                *)
(***************************************************************************)
ASSUME OrdersAssumption ==
    \A o \in Orders :
        o.op \notin {"init", "passwd"} =>
            /\ o.fields \in Seq(Range(o.fields)) /\ o.files \in Seq(Range(o.files))
            /\ DOMAIN o.options \subseteq
                  {"username", "email", "website", "password", "generate", "totp"}

ASSUME EntriesAssumption ==
    MinLength \in Nat /\ \A entry \in Entries : entry.chars \in Nat

VARIABLES
    order,      \* the command line
    line,       \* the command: at, k (the argument it is at), fields, files,
                \* uploaded, secret (the password it was just given)
    keyed     \* history: the questions with what was entered

argumentVars == <<order, line, keyed>>

NoText == [text |-> "", chars |-> 0, score |-> 0]
Start(at) ==
    [at |-> at, k |-> 1, fields |-> <<>>, files |-> <<>>, uploaded |-> 0, secret |-> NoText]

Proceed(at) == line' = [line EXCEPT !.at = at, !.k = 1]
Refuse == line' = [line EXCEPT !.at = "refused"]
Entered(question, entry) ==
    keyed' = Append(keyed, [question |-> question, entry |-> entry])
Unasked == UNCHANGED keyed

-----------------------------------------------------------------------------
(***************************************************************************)
(* parse_file_inputs: name=path, or a path that names the file by its last *)
(* component: when it has no '=', and when it looks like a path ("/...",   *)
(* "./...", "../...").                                                     *)
(***************************************************************************)
NameOfFile(raw) == IF raw.shaped \/ ~raw.equals THEN raw.base ELSE raw.before

GoodFile(raw, files) ==
    /\ NameOfFile(raw) \notin {"", "a/b"}
    /\ \A f \in Range(files) : f.name # NameOfFile(raw)

ParseFileInputs ==
    /\ line.at = "files"
    /\ IF line.k > Len(order.files) THEN Proceed("options")
       ELSE LET raw == order.files[line.k]
            IN  IF ~GoodFile(raw, line.files) THEN Refuse
                ELSE line' = [line EXCEPT !.k = @ + 1,
                                 !.files = Append(@, [name |-> NameOfFile(raw),
                                                      readable |-> raw.readable])]
    /\ Unasked /\ UNCHANGED order

-----------------------------------------------------------------------------
(***************************************************************************)
(* push_field: a name is not empty and not twice among the fields.         *)
(***************************************************************************)
Field(name, type, concealed, data) ==
    [name |-> name, type |-> type, concealed |-> concealed, data |-> data]

PushFieldOver(field, at) ==
    IF field.name = "" THEN Refuse
    ELSE line' = [line EXCEPT !.fields = Append(@, field), !.k = @ + 1, !.at = at]

PushField(field, at) ==
    IF field.name = "" \/ \E f \in Range(line.fields) : f.name = field.name THEN Refuse
    ELSE line' = [line EXCEPT !.fields = Append(@, field), !.k = @ + 1, !.at = at]

(***************************************************************************)
(* concealed_state: the fields that were named, or if none were those that *)
(* sound like secrets.  The options of the well-known fields go before it. *)
(***************************************************************************)
InferredConcealed(name) == name \in {"password", "api key"}
ConcealedState(name) ==
    IF order.concealed = <<>> THEN InferredConcealed(name) ELSE name \in order.concealed[1]

(***************************************************************************)
(* build_fields: the options in this order, whatever their order on the    *)
(* command line.                                                           *)
(***************************************************************************)
Options == <<"username", "email", "website", "password", "generate", "totp">>
Option == Options[line.k]
AtOption == line.at = "options" /\ line.k <= Len(Options)

SkipOption ==
    /\ AtOption /\ Option \notin DOMAIN order.options
    /\ line' = [line EXCEPT !.k = @ + 1]
    /\ Unasked /\ UNCHANGED order

PlainOption ==
    /\ AtOption /\ Option \in {"username", "email", "website"} \cap DOMAIN order.options
    /\ PushField(Field(Option, "string", FALSE, order.options[Option]), "options")
    /\ Unasked /\ UNCHANGED order

(***************************************************************************)
(* prompt_confirmed_password, in the two questions it asks.                *)
(***************************************************************************)
AskPassword ==
    /\ AtOption /\ Option = "password" /\ Option \in DOMAIN order.options
    /\ \E entry \in Entries :
           /\ line' = [line EXCEPT !.at = "again", !.secret = entry]
           /\ Entered("password", entry)
    /\ UNCHANGED order

ConfirmPassword ==
    /\ line.at = "again"
    /\ \E entry \in Entries :
           /\ IF entry # line.secret THEN Refuse
              ELSE PushField(Field("password", "string", TRUE, entry), "options")
           /\ Entered("again", entry)
    /\ UNCHANGED order

(***************************************************************************)
(* generate: three words, a symbol and a digit, or as many characters as   *)
(* the recipe says out of the classes that it names.                       *)
(***************************************************************************)
Default == {<<w1, "-", w2, "-", w3, s, d>> :
                w1 \in Words, w2 \in Words, w3 \in Words, s \in Symbols, d \in Digits}

ClassOf(class) ==
    CASE class = "upper" -> Upper
      [] class = "lower" -> Lower
      [] class \in {"digit", "digits"} -> Digits
      [] class = "alpha" -> Upper \cup Lower
      [] class = "hex" -> HexDigits
      [] class \in {"symbol", "symbols"} -> Symbols
      [] class = "" -> {}

Alphabet(recipe) ==
    LET named == UNION {ClassOf(c) : c \in Range(recipe.classes)}
    IN  IF named = {} THEN Upper \cup Lower \cup Digits ELSE named

KnownClasses ==
    {"upper", "lower", "digit", "digits", "alpha", "hex", "symbol", "symbols", ""}

ValidRecipe(recipe) ==
    recipe.length \in 1 .. MaxLength /\ Range(recipe.classes) \subseteq KnownClasses

Generated(recipe) ==
    IF recipe.blank THEN Default
    ELSE IF ValidRecipe(recipe) THEN [1 .. recipe.length -> Alphabet(recipe)]
    ELSE {}

GeneratePassword ==
    /\ AtOption /\ Option = "generate" /\ Option \in DOMAIN order.options
    /\ LET recipe == order.options[Option]
       IN  \/ Generated(recipe) = {} /\ Refuse
           \/ \E password \in Generated(recipe) :
                  PushField(Field("password", "string", TRUE, password), "options")
    /\ Unasked /\ UNCHANGED order

(***************************************************************************)
(* totp::normalize: an otpauth://totp URL with a secret, or a picture with *)
(* QR codes that all decode, are otpauth URLs and say the same one.        *)
(***************************************************************************)
ValidUrl(url) == url.host = "totp" /\ url.secret # ""

Normalize(totp) ==
    LET urls == Range(totp.codes)
    IN  IF totp.form = "url" THEN {u \in urls : ValidUrl(u)}
        ELSE IF \A u \in urls : u.decodes /\ u.otpauth /\ ValidUrl(u) /\ Cardinality(urls) = 1
        THEN urls ELSE {}

TakeTotp ==
    /\ AtOption /\ Option = "totp" /\ Option \in DOMAIN order.options
    /\ LET urls == Normalize(order.options[Option])
       IN  IF urls = {} THEN Refuse
           ELSE PushField(Field("totp", "totp", TRUE, CHOOSE u \in urls : TRUE), "options")
    /\ Unasked /\ UNCHANGED order

OptionsEnd ==
    /\ line.at = "options" /\ line.k > Len(Options)
    /\ Proceed("fields")
    /\ Unasked /\ UNCHANGED order

(***************************************************************************)
(* --field name=value, or a name whose value is asked for.                 *)
(***************************************************************************)
AtField == line.at = "fields" /\ line.k <= Len(order.fields)

GivenField ==
    /\ AtField /\ order.fields[line.k].given
    /\ LET raw == order.fields[line.k]
       IN  PushField(Field(raw.name, "string", ConcealedState(raw.name), raw.value), "fields")
    /\ Unasked /\ UNCHANGED order

AskField ==
    /\ AtField /\ ~order.fields[line.k].given
    /\ \E entry \in Entries :
           LET raw == order.fields[line.k]
           IN  /\ PushField(Field(raw.name, "string", ConcealedState(raw.name), entry), "fields")
               /\ Entered("value", entry)
    /\ UNCHANGED order

(***************************************************************************)
(* validate_field_and_file_name_overlap, and only then the uploads, one    *)
(* file after the other; one that cannot be read ends the command.         *)
(***************************************************************************)
Overlap == \E field \in Range(line.fields), f \in Range(line.files) : field.name = f.name

FieldsEnd ==
    /\ line.at = "fields" /\ line.k > Len(order.fields)
    /\ IF Overlap THEN Refuse ELSE Proceed("upload")
    /\ Unasked /\ UNCHANGED order

UploadFiles ==
    /\ line.at = "upload"
    /\ IF line.uploaded = Len(line.files) THEN Proceed("sent")
       ELSE IF line.files[line.uploaded + 1].readable
       THEN line' = [line EXCEPT !.uploaded = @ + 1]
       ELSE line' = [line EXCEPT !.at = "broken"]
    /\ Unasked /\ UNCHANGED order

-----------------------------------------------------------------------------
(***************************************************************************)
(* init and passwd: the new password, which passwd compares with the       *)
(* current one; a short one is refused, a weak one (a score below 3 of 4)  *)
(* confirmed; then the password once more.                                 *)
(***************************************************************************)
EnterMaster ==
    /\ line.at = "master"
    /\ \E entry \in Entries :
           /\ Entered("password", entry)
           /\ IF entry = order.current \/ entry.chars < MinLength THEN Refuse
              ELSE line' = [line EXCEPT !.secret = entry,
                               !.at = IF entry.score < 3 THEN "weak" ELSE "confirm"]
    /\ UNCHANGED order

ConfirmWeak ==
    /\ line.at = "weak"
    /\ Cardinality({k \in DOMAIN keyed : keyed[k].question = "weak"}) < MaxAnswers
    /\ \E answer \in {"y", "n", "what", "eof"} :
           /\ Entered("weak", answer)
           /\ CASE answer = "y" -> Proceed("confirm")
                [] answer \in {"n", "eof"} -> Refuse
                [] answer = "what" -> UNCHANGED line
    /\ UNCHANGED order

ConfirmMaster ==
    /\ line.at = "confirm"
    /\ \E entry \in Entries :
           /\ Entered("again", entry)
           /\ IF entry # line.secret THEN Refuse ELSE Proceed("set")
    /\ UNCHANGED order

InitArguments ==
    /\ order \in Orders
    /\ line = Start(IF order.op \in {"init", "passwd"} THEN "master" ELSE "files")
    /\ keyed = <<>>

NextArguments ==
    \/ ParseFileInputs
    \/ SkipOption \/ PlainOption \/ AskPassword \/ ConfirmPassword
    \/ GeneratePassword \/ TakeTotp \/ OptionsEnd
    \/ GivenField \/ AskField \/ FieldsEnd \/ UploadFiles
    \/ EnterMaster \/ ConfirmWeak \/ ConfirmMaster

ArgumentsSpec == InitArguments /\ [][NextArguments]_argumentVars

-----------------------------------------------------------------------------
(***************************************************************************)
(* The request that is sent has every field that was asked for once, and   *)
(* every file, under names of which no two are the same; a secret is never *)
(* less concealed than the command line says.                              *)
(***************************************************************************)
AskedNames ==
    {IF o = "generate" THEN "password" ELSE o : o \in DOMAIN order.options}
    \cup {order.fields[k].name : k \in DOMAIN order.fields}

FieldsAsAsked ==
    line.at = "sent" =>
        /\ {f.name : f \in Range(line.fields)} = AskedNames
        /\ Cardinality({f.name : f \in Range(line.fields)} \cup {f.name : f \in Range(line.files)})
             = Len(line.fields) + Len(order.files)
        /\ \A f \in Range(line.fields) :
               /\ f.name \in {"password", "totp"} \cap {o : o \in DOMAIN order.options}
                      => f.concealed
               /\ order.concealed # <<>> /\ f.name \in order.concealed[1]
                      => f.concealed \/ f.name \in {"username", "email", "website"}

(***************************************************************************)
(* A command line that is refused has left nothing with the agent, and one *)
(* that breaks off at a file has uploaded those before it only.            *)
(***************************************************************************)
RefusedLeavesNothing ==
    /\ line.at = "refused" => line.uploaded = 0
    /\ line.at = "broken" => \A k \in 1 .. line.uploaded : line.files[k].readable

(***************************************************************************)
(* A password that is stored or set was entered twice alike, or is one     *)
(* that the recipe allows; and a master password that is set is long       *)
(* enough, not the old one, and not a weak one that nobody confirmed.      *)
(***************************************************************************)
EnteredTwice(secret) ==
    \A question \in {"password", "again"} :
        \E k \in DOMAIN keyed :
            keyed[k].question = question /\ keyed[k].entry = secret

PasswordsMeant ==
    /\ (line.at = "sent" /\ "password" \in DOMAIN order.options) =>
           \E f \in Range(line.fields) : f.name = "password" /\ EnteredTwice(f.data)
    /\ line.at = "set" =>
           /\ EnteredTwice(line.secret)
           /\ line.secret.chars >= MinLength
           /\ order.op = "passwd" => line.secret # order.current
           /\ line.secret.score < 3 =>
                  \E k \in DOMAIN keyed :
                      keyed[k].question = "weak" /\ keyed[k].entry = "y"

(***************************************************************************)
(* The three together: a command acts on what was meant, or not at all.    *)
(***************************************************************************)
ArgumentsMeant == FieldsAsAsked /\ RefusedLeavesNothing /\ PasswordsMeant
==============================================================================
