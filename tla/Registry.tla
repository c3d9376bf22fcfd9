------------------------------- MODULE Registry -------------------------------
(***************************************************************************)
(* The rows of a vault beside its items: contacts, settings and jobs, and  *)
(* what the operations of the database workers on them do and answer       *)
(* (agent/state.rs, settings.rs).  Each operation is an operator over the  *)
(* tables t that gives a status, what the answer shows, and the tables     *)
(* after it.  A write is one statement, so a refused one changes nothing.  *)
(* The directories and items, t.content, are those of VaultReads.          *)
(***************************************************************************)
EXTENDS Integers, FiniteSets, Sequences, TLC

CONSTANTS
    EmailOrder, \* the emails of contacts, in the order of SQLite
    BadKeys,    \* texts that are no age public key
    BadIds,     \* job ids that are not 32 hexadecimal digits
    BadNames,   \* the empty name
    Trash, Internal, Personal, KeyItem, PublicKeyItem, BadData, TrashRetention,
    VersionRetention, NameOrder, ConcealedData, TotpData    \* of VaultReads

Content == INSTANCE VaultReads

Nothing == [x \in {} |-> 0]
Put(f, x, y) == [z \in DOMAIN f \cup {x} |-> IF z = x THEN y ELSE f[z]]
Drop(f, x) == [z \in DOMAIN f \ {x} |-> f[z]]

Gives(status, shows, t) == [status |-> status, shows |-> shows, tables |-> t]
Shows(shows, t) == Gives("ok", shows, t)
Changes(t) == Gives("ok", Nothing, t)
Refuses(status, t) == Gives(status, Nothing, t)

-----------------------------------------------------------------------------
(***************************************************************************)
(* Contacts.  The email is the key of the table.                           *)
(***************************************************************************)
CreateContact(t, email, name, key) ==
    IF email \in BadNames \/ key \in BadKeys THEN Refuses("bad_request", t)
    ELSE IF email \in DOMAIN t.contacts THEN Refuses("conflict", t)
    ELSE Changes([t EXCEPT !.contacts = Put(@, email, [name |-> name, key |-> key])])

(***************************************************************************)
(* An update may rename the contact; a name is set or left (a sequence of  *)
(* one or none), and so is the key.                                        *)
(***************************************************************************)
OrElse(given, old) == IF given = <<>> THEN old ELSE given[1]

UpdateContact(t, email, newEmail, name, key) ==
    IF \/ {email, newEmail} \cap BadNames # {}
       \/ key # <<>> /\ key[1] \in BadKeys
    THEN Refuses("bad_request", t)
    ELSE IF email \notin DOMAIN t.contacts THEN Refuses("not_found", t)
    ELSE IF newEmail # email /\ newEmail \in DOMAIN t.contacts THEN Refuses("conflict", t)
    ELSE LET row == t.contacts[email]
         IN  Changes([t EXCEPT !.contacts =
                 Put(Drop(@, email), newEmail,
                     [name |-> OrElse(name, row.name), key |-> OrElse(key, row.key)])])

DeleteContact(t, email) ==
    IF email \notin DOMAIN t.contacts THEN Refuses("not_found", t)
    ELSE Changes([t EXCEPT !.contacts = Drop(@, email)])

ContactPublicKey(t, email) ==
    IF email \in BadNames THEN Refuses("bad_request", t)
    ELSE IF email \notin DOMAIN t.contacts THEN Refuses("not_found", t)
    ELSE Shows([key |-> t.contacts[email].key], t)

(***************************************************************************)
(* list_contacts: a page from the marker's contact on, which must still be *)
(* there; a marker is the email of the first contact of the next page.     *)
(***************************************************************************)
NoEmail == "none"

ListContacts(t, marker, limit) ==
    IF limit \notin 1 .. 200 \/ (marker # NoEmail /\ marker \notin DOMAIN t.contacts)
    THEN Refuses("bad_request", t)
    ELSE LET from == IF marker = NoEmail THEN 1
                     ELSE CHOOSE k \in DOMAIN EmailOrder : EmailOrder[k] = marker
             rows == SelectSeq(SubSeq(EmailOrder, from, Len(EmailOrder)),
                               LAMBDA email : email \in DOMAIN t.contacts)
         IN  Shows([emails |-> SubSeq(rows, 1, IF Len(rows) < limit THEN Len(rows) ELSE limit),
                    next |-> IF Len(rows) > limit THEN rows[limit + 1] ELSE NoEmail], t)

-----------------------------------------------------------------------------
(***************************************************************************)
(* SETTINGS: those in seconds with their bounds, and two others.  A value  *)
(* is [form, n]: "number" for what parses as an unsigned number, "globs"   *)
(* for a list of patterns that compile, "type" for one of the three        *)
(* process identifications, "text" for anything else.                      *)
(***************************************************************************)
Seconds(min, max, default) == [form |-> "number", min |-> min, max |-> max,
                               default |-> [form |-> "number", n |-> default]]
Other(form) == [form |-> form, min |-> 0, max |-> 0, default |-> [form |-> form, n |-> 0]]

Week == 604800
FiveYears == 157680000

SETTINGS ==
    [name \in {"agent.authTtlSeconds", "agent.settingsAuthTtlSeconds"} |->
        Seconds(1, Week, IF name = "agent.authTtlSeconds" THEN 900 ELSE 300)]
    @@ ("agent.denialTtlSeconds" :> Seconds(1, Week, 60))
    @@ ("agent.gcSeconds" :> Seconds(60, 2592000, 3600))
    @@ [name \in {"agent.autoDeleteTrashItemsAfterSeconds",
                  "agent.autoDeleteOldVersionsAfterSeconds"} |->
            Seconds(0, FiveYears, 15552000)]
    @@ ("agent.trustedProgramPaths" :> Other("globs"))
    @@ ("agent.processIdentificationType" :> Other("type"))
    @@ ("cli.clearClipboardAfterSeconds" :> Seconds(10, 300, 30))

Parses(name, value) ==
    LET setting == SETTINGS[name]
    IN  /\ value.form = setting.form
        /\ value.form = "number" => value.n \in setting.min .. setting.max

UpsertSetting(t, name, value) ==
    IF name \notin DOMAIN SETTINGS THEN Refuses("not_found", t)
    ELSE IF ~Parses(name, value) THEN Refuses("bad_request", t)
    ELSE Changes([t EXCEPT !.settings = Put(@, name, value)])

(***************************************************************************)
(* The table also holds rows of the vault's own; the client is shown those *)
(* that begin with "agent." or "cli.", which are the settings.             *)
(***************************************************************************)
ListSettings(t) ==
    Shows([n \in DOMAIN t.settings \cap DOMAIN SETTINGS |-> t.settings[n]], t)

GetSetting(t, name) ==
    IF name \notin DOMAIN t.settings \cap DOMAIN SETTINGS THEN Refuses("not_found", t)
    ELSE Shows([value |-> t.settings[name]], t)

(***************************************************************************)
(* setting_duration, for the agent itself: a missing row is an error.      *)
(***************************************************************************)
SettingDuration(t, name) ==
    IF name \notin DOMAIN SETTINGS THEN Refuses("not_found", t)
    ELSE IF name \notin DOMAIN t.settings THEN Refuses("internal", t)
    ELSE IF ~(SETTINGS[name].form = "number" /\ Parses(name, t.settings[name]))
    THEN Refuses("bad_request", t)
    ELSE Shows([seconds |-> t.settings[name].n], t)

-----------------------------------------------------------------------------
(***************************************************************************)
(* Jobs.  A change of status asks only that the row is there.              *)
(***************************************************************************)
Queued(type) == [type |-> type, status |-> "queued", started |-> FALSE,
                 finished |-> FALSE, error |-> FALSE]

HasPlace(t, dir, item) ==
    Content!HasPublicDir(t.content, dir) /\ Content!HasPublicItem(t.content, dir, item)

CreateJob(t, id, row) ==
    IF id \in DOMAIN t.jobs THEN Refuses("conflict", t)
    ELSE Changes([t EXCEPT !.jobs = Put(@, id, row)])

CreateImportJob(t, id, dir, item) ==
    IF id \in BadIds \/ {dir, item} \cap BadNames # {} THEN Refuses("bad_request", t)
    ELSE IF ~Content!HasPublicDir(t.content, dir) THEN Refuses("not_found", t)
    ELSE CreateJob(t, id, Queued("import"))

CreateExportJob(t, id, dir, item, email) ==
    IF id \in BadIds \/ {dir, item, email} \cap BadNames # {} THEN Refuses("bad_request", t)
    ELSE IF ~HasPlace(t, dir, item) \/ email \notin DOMAIN t.contacts
    THEN Refuses("not_found", t)
    ELSE CreateJob(t, id, Queued("export"))

ChangeJob(t, id, row) ==
    IF id \in BadIds THEN Refuses("bad_request", t)
    ELSE IF id \notin DOMAIN t.jobs THEN Refuses("not_found", t)
    ELSE Changes([t EXCEPT !.jobs[id] = row])

JobRow(t, id) == IF id \in DOMAIN t.jobs THEN t.jobs[id] ELSE Queued("none")

MarkJobRunning(t, id) ==
    ChangeJob(t, id, [JobRow(t, id) EXCEPT !.status = "running", !.started = TRUE])

MarkJobSucceeded(t, id) ==
    ChangeJob(t, id, [JobRow(t, id) EXCEPT !.status = "succeeded", !.finished = TRUE,
                                           !.error = FALSE])

MarkJobFailed(t, id) ==
    ChangeJob(t, id, [JobRow(t, id) EXCEPT !.status = "failed", !.finished = TRUE,
                                           !.error = TRUE])

GetJob(t, id) ==
    IF id \in BadIds THEN Refuses("bad_request", t)
    ELSE IF id \notin DOMAIN t.jobs THEN Refuses("not_found", t)
    ELSE Shows(t.jobs[id], t)

(***************************************************************************)
(* create_database: every setting has its default, the content is that of  *)
(* a new vault.                                                            *)
(***************************************************************************)
NewRegistry ==
    [contacts |-> Nothing, jobs |-> Nothing, content |-> Content!NewVault(0),
     settings |-> [n \in DOMAIN SETTINGS |-> SETTINGS[n].default]]
==============================================================================
