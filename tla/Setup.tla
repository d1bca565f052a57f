------------------------------- MODULE Setup -------------------------------
(***************************************************************************)
(* Who writes config.toml.  The wizard `suasor onboard` adds a connector,  *)
(* or an account of one; `slack follow` and `unfollow` edit its channels;  *)
(* `config edit` restores what it opened when the edit is not valid; the   *)
(* user has his own editor.  Each reads the whole file and writes it back  *)
(* whole, without a lock, and the wizard and the editor wait in between,   *)
(* for a human or the network.  An `accounts` table demotes a connector's  *)
(* flat keys to defaults, which stops the account that was syncing by them *)
(* unless the wizard declares it too.  The wizard also edits the crontab.  *)
(*                                                                         *)
(* "google" stands for the connectors with accounts, of the generic flow;  *)
(* "slack" has a bridge of its own.  A section is "none", "on" or "off".   *)
(***************************************************************************)
EXTENDS Naturals, FiniteSets

CONSTANTS
    Named,      \* the accounts with a name of their own
    Channel,    \* Slack channels
    MaxWizards, \* bound: runs of the wizard
    MaxEdits    \* bound: everything else that writes

Default == "default"    \* DEFAULT_ACCOUNT_NAME
Flat    == "flat"       \* the wizard without `--account`
Account == Named \union {Default}
Conn    == {"google", "slack"}
Pool    == "pool"       \* the credential of slack

\* What the constants are.
SetupConstants == Named \cap {Default, Flat, Pool} = {}

VARIABLES
    file,       \* config.toml
    stored,     \* the credentials that resolve
    joined,     \* the channels the Slack app is a member of
    wiz,        \* the wizard
    fol,        \* `slack follow --suggest`
    ed,         \* `config edit`
    cron,       \* the crontab: the user's lines, suasor's
    cronSeen,   \* what the wizard read of it
    runs, edits \* how much of each bound is used

files == <<file, cron>>
vars == <<file, stored, joined, wiz, fol, ed, cron, cronSeen, runs, edits>>

Idle == [at |-> "idle"]

Empty == [sec |-> [c \in Conn |-> "none"], accts |-> {}, chans |-> {}]

Init ==
    /\ file \in {Empty, [Empty EXCEPT !.sec["google"] = "on"]}
    /\ stored \in {{}, {Default}}
    /\ joined \in SUBSET Channel
    /\ wiz = Idle /\ fol = Idle /\ ed = Idle
    /\ cron \in {{}, {"mine"}} /\ cronSeen = {}
    /\ runs = 0 /\ edits = 0

Configured(f) == f.sec["google"] # "none" \/ f.accts # {}

\* accountSlices: without a table the flat keys are the one account.
accountSlices(f) == IF f.accts = {} THEN {Default} ELSE f.accts

Enabled(f) == Configured(f) /\ f.sec["google"] # "off"

\* The accounts a sync reads.
Ingesting(f) == IF Enabled(f) THEN accountSlices(f) \cap stored ELSE {}

AddSection(f, c) == IF f.sec[c] = "none" THEN [f EXCEPT !.sec[c] = "on"] ELSE f

AddAccount(f, a) == [f EXCEPT !.accts = @ \union {a}]

\* addSlackChannels: no channel, no write.
AddChannels(f, ids) ==
    IF ids \subseteq f.chans THEN f
    ELSE [AddSection(f, "slack") EXCEPT !.chans = @ \union ids]
-----------------------------------------------------------------------------
\* What --account needs is read before anything is written.
Plan(f, a) ==
    [configured |-> Configured(f), accounts |-> f.accts # {}, mine |-> a \in f.accts]

Start(c, a) ==
    /\ wiz = Idle /\ runs < MaxWizards
    /\ c = "slack" => a = Flat
    /\ runs' = runs + 1
    /\ wiz' = [at |-> "token", conn |-> c, acct |-> a, plan |-> Plan(file, a), start |-> file]
    /\ UNCHANGED <<files, stored, joined, fol, ed, cronSeen, edits>>

SecretName == IF wiz.conn = "slack" THEN Pool ELSE IF wiz.acct = Flat THEN Default ELSE wiz.acct

\* storeTokenFor, and the bridge's: a token, or none (kept, skipped, --skip-auth).
Token ==
    /\ wiz.at = "token"
    /\ stored' \in {stored, stored \union {SecretName}}
    /\ wiz' = [wiz EXCEPT !.at = "append"]
    /\ UNCHANGED <<files, joined, fol, ed, cronSeen, runs, edits>>

\* The wizard is left: no token on a pipe, no keychain, Ctrl-C.
Quit ==
    /\ wiz # Idle
    /\ wiz' = Idle
    /\ UNCHANGED <<files, stored, joined, fol, ed, cronSeen, runs, edits>>

defaultAccountCredentialStored == Default \in stored

\* This run demotes flat keys, and a credential says an account synced by them.
Preserves(f) ==
    /\ wiz.plan.configured /\ ~wiz.plan.accounts
    /\ wiz.acct # Default /\ defaultAccountCredentialStored

\* The section the connector lacks, then the account that would be demoted.
Prepared(f) ==
    LET base == IF wiz.plan.configured THEN f ELSE AddSection(f, "google") IN
    IF Preserves(f) THEN AddAccount(base, Default) ELSE base

Discover(f) ==
    wiz' = [at |-> "discover", conn |-> wiz.conn, acct |-> wiz.acct, plan |-> wiz.plan,
            start |-> wiz.start, read |-> file, text |-> f, keys |-> stored]

\* appendConfigSlice, and the bridge's: a section that is there ends the run.
AppendSection ==
    /\ \/ file.sec[wiz.conn] # "none" /\ wiz' = Idle
       \/ file.sec[wiz.conn] = "none" /\ Discover(file)
    /\ UNCHANGED file

AppendAccount ==
    LET f == Prepared(file)
        there == wiz.plan.mine \/ wiz.acct \in f.accts IN
    \/ there /\ file' = f /\ wiz' = Idle
    \/ ~there /\ Discover(f) /\ UNCHANGED file

\* The file is read; discovery comes before anything new is written.
Append ==
    /\ wiz.at = "append"
    /\ \/ wiz.acct = Flat /\ AppendSection
       \/ wiz.acct # Flat /\ AppendAccount
    /\ UNCHANGED <<stored, joined, fol, ed, cron, cronSeen, runs, edits>>

WriteSection == wiz.acct = Flat /\ file' = AddSection(wiz.text, wiz.conn)
WriteAccount == wiz.acct # Flat /\ file' = AddAccount(wiz.text, wiz.acct)

\* With a token the channels joined are offered; none means nothing to write.
WriteChannels ==
    /\ wiz.conn = "slack" /\ Pool \in wiz.keys
    /\ file' = IF joined = {} THEN file ELSE AddChannels(wiz.text, joined)

\* The answer of the API, or its error, and of the human: the text read is written back.
Discovered ==
    /\ wiz.at = "discover"
    /\ WriteSection \/ WriteAccount \/ WriteChannels
    /\ wiz' = Idle
    /\ UNCHANGED <<stored, joined, fol, ed, cron, cronSeen, runs, edits>>
-----------------------------------------------------------------------------
Count == edits < MaxEdits /\ edits' = edits + 1

\* slack follow --suggest: what is joined and not configured waits for one confirmation.
Suggest ==
    /\ fol = Idle /\ Count
    /\ fol' = [at |-> "confirm", ids |-> joined \ file.chans, read |-> file]
    /\ UNCHANGED <<files, stored, joined, wiz, ed, cronSeen, runs>>

\* Mutant: the file is the one read before the confirmation.
FollowStale == AddChannels(fol.read, fol.ids)

\* The file is read again after it.
Follow == AddChannels(file, fol.ids)

Confirm ==
    /\ fol.at = "confirm"
    /\ file' \in {file, Follow}
    /\ fol' = Idle
    /\ UNCHANGED <<stored, joined, wiz, ed, cron, cronSeen, runs, edits>>

Unfollow(ch) ==
    /\ ch \in file.chans /\ Count
    /\ file' = [file EXCEPT !.chans = @ \ {ch}]
    /\ UNCHANGED <<stored, joined, wiz, fol, ed, cron, cronSeen, runs>>

\* What a human does to a file at once.
Edited(f) ==
    {[f EXCEPT !.sec["google"] = s] : s \in {"none", "on", "off"}}
    \union {[f EXCEPT !.sec["slack"] = s, !.chans = IF s = "none" THEN {} ELSE @] :
               s \in {"none", "on", "off"}}
    \union {[f EXCEPT !.accts = @ \union {a}] : a \in Account}

\* The user's own editor.
Hand ==
    /\ Count
    /\ file' \in Edited(file) \ {file}
    /\ UNCHANGED <<stored, joined, wiz, fol, ed, cron, cronSeen, runs>>

\* config edit keeps the text it opened.
Open ==
    /\ ed = Idle /\ Count
    /\ ed' = [at |-> "open", orig |-> file]
    /\ UNCHANGED <<files, stored, joined, wiz, fol, cronSeen, runs>>

\* The edit is valid and stays, is rejected and rolled back, or nothing was saved.
Close ==
    /\ ed.at = "open"
    /\ file' \in Edited(ed.orig) \union {ed.orig, file}
    /\ ed' = Idle
    /\ UNCHANGED <<stored, joined, wiz, fol, cron, cronSeen, runs, edits>>

\* `auth set`: the one account there is, or the one named.
authSet(a) ==
    /\ a \in accountSlices(file) \ stored /\ Count
    /\ stored' = stored \union {a}
    /\ UNCHANGED <<files, joined, wiz, fol, ed, cronSeen, runs>>

Join(ch) ==
    /\ ch \notin joined /\ Count
    /\ joined' = joined \union {ch}
    /\ UNCHANGED <<files, stored, wiz, fol, ed, cronSeen, runs>>
-----------------------------------------------------------------------------
\* --write-cron: `crontab -l`, whose failure looks like an empty table.
ListCron ==
    /\ cronSeen = {} /\ Count
    /\ cronSeen' \in {{"read"} \union cron, {"unread"}}
    /\ UNCHANGED <<files, stored, joined, wiz, fol, ed, runs>>

\* `crontab -`, unless suasor has a line there.
WriteCron ==
    /\ cronSeen # {}
    /\ cron' = IF "suasor" \in cronSeen THEN cron
               ELSE (cronSeen \ {"read", "unread"}) \union {"suasor"}
    /\ cronSeen' = {}
    /\ UNCHANGED <<file, stored, joined, wiz, fol, ed, runs, edits>>

EditCron ==
    /\ Count
    /\ cron' \in (SUBSET {"mine", "suasor"}) \ {cron}
    /\ UNCHANGED <<file, stored, joined, wiz, fol, ed, cronSeen, runs>>

Next ==
    \/ \E c \in Conn, a \in Account \union {Flat} : Start(c, a)
    \/ Token \/ Quit \/ Append \/ Discovered
    \/ Suggest \/ Confirm \/ \E ch \in Channel : Unfollow(ch) \/ Join(ch)
    \/ Hand \/ Open \/ Close \/ \E a \in Account : authSet(a)
    \/ ListCron \/ WriteCron \/ EditCron

Spec == Init /\ [][Next]_vars
-----------------------------------------------------------------------------
(***************************************************************************)
(* Properties.                                                             *)
(***************************************************************************)

Within(f, g) ==
    /\ \A c \in Conn : f.sec[c] # "none" => g.sec[c] = f.sec[c]
    /\ f.accts \subseteq g.accts /\ f.chans \subseteq g.chans

\* No command takes from config.toml or the crontab what it does not mean to take: the
\* wizard and `slack follow` only add, whatever is written while `follow` waits for its
\* confirmation.  Where the file changed while the wizard was at its discovery or the
\* editor was open that change is lost, and the crontab with a listing that failed.
KeepsOthersStep ==
    /\ file' # file /\ edits' = edits /\ ~Within(file, file') =>
          \/ wiz.at = "discover" /\ wiz' = Idle /\ wiz.read # file
          \/ ed.at = "open" /\ ed' = Idle
    /\ cron' # cron /\ edits' = edits =>
          \/ cron \subseteq cron'
          \/ "unread" \in cronSeen \/ cron # cronSeen \ {"read"}

KeepsOthers == [][KeepsOthersStep]_vars

\* Adding an account stops none that was syncing (onboard.ts:140-157), provided that
\* neither the file nor the keychain changed while the wizard ran.
FirstAccountKeptStep ==
    wiz # Idle /\ wiz.acct # Flat /\ file' # file /\ wiz' = Idle /\ wiz.start = file
       /\ (wiz.at = "discover" => wiz.read = file /\ wiz.keys = stored)
    => Ingesting(file) \subseteq Ingesting(file)'

FirstAccountKept == [][FirstAccountKeptStep]_vars

-----------------------------------------------------------------------------
(***************************************************************************)
(* Why they hold: the invariant that the wizard's and the editors' steps   *)
(* keep.                                                                   *)
(***************************************************************************)

File == [sec : [Conn -> {"none", "on", "off"}], accts : SUBSET Account, chans : SUBSET Channel]

\* What the wizard has at hand before it reads the file, and at its discovery.
Planned == [at : {"token", "append"}, conn : Conn, acct : Account \union {Flat},
            plan : [configured : BOOLEAN, accounts : BOOLEAN, mine : BOOLEAN], start : File]
Read == [at : {"discover"}, conn : Conn, acct : Account \union {Flat},
         plan : [configured : BOOLEAN, accounts : BOOLEAN, mine : BOOLEAN], start : File,
         read : File, text : File, keys : SUBSET (Account \union {Pool})]

\* What is written back after the discovery is what was read, with the sections and the
\* account that the plan and the keychain asked for when it was read.
TextOK ==
    IF wiz.acct = Flat THEN wiz.text = wiz.read
    ELSE LET base == IF wiz.plan.configured THEN wiz.read ELSE AddSection(wiz.read, "google")
             kept == wiz.plan.configured /\ ~wiz.plan.accounts /\ wiz.acct # Default
                       /\ Default \in wiz.keys
         IN  wiz.text = IF kept THEN AddAccount(base, Default) ELSE base

\* The wizard; its plan is of the file it started with.
WizardOK ==
    /\ wiz \in {Idle} \union Planned \union Read
    /\ wiz # Idle => /\ wiz.plan = Plan(wiz.start, wiz.acct)
                     /\ wiz.conn = "slack" => wiz.acct = Flat
    /\ wiz.at = "discover" => TextOK

FilesOK ==
    /\ file \in File /\ stored \in SUBSET (Account \union {Pool}) /\ joined \in SUBSET Channel
    /\ runs \in Nat /\ edits \in Nat

WaitingOK ==
    /\ fol \in {Idle} \union [at : {"confirm"}, ids : SUBSET Channel, read : File]
    /\ ed \in {Idle} \union [at : {"open"}, orig : File]

SetupInv == FilesOK /\ WizardOK /\ WaitingOK
=============================================================================
