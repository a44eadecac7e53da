----------------------------- MODULE ConfigEdit -----------------------------
(* The line editor behind the configuration commands.  It never parses and
   rewrites the document: it finds a section by its header line, splices lines
   in or out, has the typed parser validate the candidate, classifies the
   transition, and replaces the file.  A command reads once before it locks
   (the account to remove, the flag to toggle) and once after.

   A document is a sequence of blocks: a table header and the keys up to the
   next one.  The parser sees every header; the editor sees a header only when
   nothing but blanks follows it on its line, so a block whose header carries a
   comment is, to the editor, more lines of the block before. *)
EXTENDS Naturals, FiniteSets, SequencesExt

CONSTANTS
    Editors,      \* command invocations
    EditIds,      \* provider ids
    Credentials,  \* upstream API keys
    Settings,     \* values of a plain key
    Layouts,      \* documents the installation may start from
    MaxOps        \* operations over a behaviour

VARIABLES
    document,  \* the configuration file
    edits,     \* each invocation: where it is, its operation, what it read, its candidate
    operated   \* operations started

editVars == <<document, edits, operated>>

Server == <<"server">>
Dashboard == <<"dashboard">>
Provider(p) == <<"providers", p>>
AccountTable(p) == <<"providers", p, "accounts">>
AuthTable(p) == <<"providers", p, "auth">>
Under(table, p) == Len(table) >= 2 /\ table[1] = "providers" /\ table[2] = p
IsAccount(table) == Len(table) = 3 /\ table[3] = "accounts"
Block(table, keys) == [table |-> table, seen |-> TRUE, keys |-> keys]
One(key, value) == [k \in {key} |-> value]
AccountKeys(name, credential) ==
    [k \in {"name", "api_key"} |-> IF k = "name" THEN name ELSE <<"key", credential>>]

DEFAULT_CONFIG == <<Block(Server, One("port", <<"default">>))>>
NoOp == [kind |-> "none", provider |-> <<>>, value |-> <<>>]
NewEdit == [at |-> "new", op |-> NoOp, read |-> <<>>, next |-> <<>>, changes |-> {}]

EditInit ==
    /\ document \in Layouts
    /\ edits = [e \in Editors |-> NewEdit]
    /\ operated = 0

(***************************************************************************)
(* Finding and splicing lines.                                             *)
(***************************************************************************)

\* line_header: the positions whose header the editor recognises as this table.
line_header(text, table) == {i \in DOMAIN text : text[i].seen /\ text[i].table = table}

First(positions) == CHOOSE i \in positions : \A j \in positions : i <= j

\* The editor's section runs to the line before the next header it recognises.
SectionEnd(text, i) ==
    LET later == {j \in DOMAIN text : j > i /\ text[j].seen}
    IN  IF later = {} THEN Len(text) ELSE First(later) - 1

Splice(text, i, blocks) == SubSeq(text, 1, i) \o blocks \o SubSeq(text, i + 1, Len(text))

Without(text, positions) ==
    LET kept == SetToSortSeq(DOMAIN text \ positions, <)
    IN  [i \in DOMAIN kept |-> text[kept[i]]]

Refused == <<>>

\* replace_or_insert_section_value: the first assignment of the key in the
\* section, else a line at the section's end, else a new section.
replace_or_insert_section_value(text, table, key, value, insert, append) ==
    LET found == line_header(text, table)
        start == First(found)
        holders == {j \in start..SectionEnd(text, start) : key \in DOMAIN text[j].keys}
        Put(j) == [text EXCEPT ![j].keys = One(key, value) @@ @]
    IN  IF found = {}
        THEN IF append THEN Append(text, Block(table, One(key, value))) ELSE Refused
        ELSE IF holders # {} THEN Put(First(holders))
        ELSE IF insert THEN Put(SectionEnd(text, start)) ELSE Refused

\* account_names: the names under every account header, in any provider.
account_names(text) ==
    {text[j].keys["name"] : j \in {j \in DOMAIN text : "name" \in DOMAIN text[j].keys
        /\ \E i \in 1..j : text[i].seen /\ IsAccount(text[i].table) /\ j <= SectionEnd(text, i)}}

\* unique_account_name counts from one past the number of accounts.
unique_account_name(p, names) ==
    LET count == First({n \in Cardinality(names) + 1..2 * Cardinality(names) + 1 : <<p, n>> \notin names})
    IN  <<p, count>>

\* provider_block: the template's tables, as the serializer orders them.
provider_block(p, name, credential) ==
    <<Block(Provider(p), One("id", p)), Block(AccountTable(p), AccountKeys(name, credential)),
      Block(AuthTable(p), One("mode", <<"bearer">>))>>

\* append_account: after the provider's first account section; a provider with
\* none gets it right under its header, ahead of the provider's own keys.
append_account(text, p, name, credential) ==
    LET accounts == line_header(text, AccountTable(p))
        header == First(line_header(text, Provider(p)))
        added == Block(AccountTable(p), AccountKeys(name, credential))
    IN  IF accounts # {}
        THEN Splice(text, SectionEnd(text, First(accounts)), <<added>>)
        ELSE Splice([text EXCEPT ![header].keys = <<>>], header,
                    <<[added EXCEPT !.keys = @ @@ text[header].keys]>>)

\* A new provider's block goes before the first provider table.
InsertProvider(text, p, name, credential) ==
    LET others == {i \in DOMAIN text : text[i].seen /\ text[i].table[1] = "providers"}
        at == IF others = {} THEN Len(text) ELSE First(others) - 1
    IN  Splice(text, at, provider_block(p, name, credential))

\* remove_provider_block: from the provider's header to the next header that is
\* not one of its tables.
remove_provider_block(text, p) ==
    LET found == line_header(text, Provider(p))
        start == First(found)
        stops == {j \in DOMAIN text : j > start /\ text[j].seen /\ ~Under(text[j].table, p)}
        end == IF stops = {} THEN Len(text) ELSE First(stops) - 1
    IN  IF found = {} THEN text ELSE Without(text, start..end)

\* remove_account_block: every account section holding the name; a provider left
\* with no account section goes altogether.
remove_account_block(text, p, name) ==
    LET Lines(i) == i..SectionEnd(text, i)
        named == {i \in line_header(text, AccountTable(p)) :
                     \E j \in Lines(i) : "name" \in DOMAIN text[j].keys /\ text[j].keys["name"] = name}
        rest == Without(text, UNION {Lines(i) : i \in named})
    IN  IF line_header(rest, AccountTable(p)) # {} THEN rest ELSE remove_provider_block(rest, p)

(***************************************************************************)
(* The parser and the classifier.                                          *)
(***************************************************************************)

\* What the document says: its tables with their keys.
Meaning(text) == {<<text[i].table, text[i].keys>> : i \in DOMAIN text}

Allowed(table) ==
    CASE table = Server -> {"port", "api_key", "api_key_env"}
      [] table = Dashboard -> {"public"}
      [] Len(table) = 2 -> {"id"}
      [] IsAccount(table) -> {"name", "api_key"}
      [] OTHER -> {"mode"}

\* Defect: the candidate is written without the parser's verdict.
AcceptsAll(text) == text # Refused

\* from_toml_bytes: a table once, no key its table does not know, every provider
\* with its id, account names present and unique.
Accepts(text) ==
    /\ text # Refused
    /\ \A i, j \in DOMAIN text :
           /\ (i # j /\ text[i].table = text[j].table) => IsAccount(text[i].table)
           /\ (i # j /\ IsAccount(text[i].table) /\ IsAccount(text[j].table))
                  => text[i].keys # text[j].keys /\ text[i].keys["name"] # text[j].keys["name"]
    /\ \A i \in DOMAIN text :
           /\ DOMAIN text[i].keys \subseteq Allowed(text[i].table)
           /\ IsAccount(text[i].table) => "name" \in DOMAIN text[i].keys
           /\ text[i].table[1] = "providers" =>
                  <<Provider(text[i].table[2]), One("id", text[i].table[2])>> \in Meaning(text)

\* diff_structured, diff_dynamic_map and diff_accounts compare providers and
\* accounts by name, the other tables by their registered fields.
ProviderIds(said) == {entry[1][2] : entry \in {e \in said : e[1][1] = "providers"}}
ProviderPart(said, p) == {e \in said : Under(e[1], p) /\ ~IsAccount(e[1])}
collect_accounts(said) ==
    {<<e[1][2], e[2]["name"], e[2]>> : e \in {e \in said : IsAccount(e[1])}}
SymmetricDifference(S, T) == (S \ T) \cup (T \ S)

diff_dynamic_map(old, new) ==
    {<<"providers", p>> : p \in {p \in ProviderIds(old) \cup ProviderIds(new) :
                                     ProviderPart(old, p) # ProviderPart(new, p)}}
diff_accounts(old, new) ==
    {<<"accounts", a[1], a[2]>> : a \in SymmetricDifference(collect_accounts(old), collect_accounts(new))}
DiffFields(old, new) ==
    {e[1] : e \in {e \in SymmetricDifference(old, new) : e[1][1] # "providers"}}

classify_transition(old, new) ==
    diff_dynamic_map(old, new) \cup diff_accounts(old, new) \cup DiffFields(old, new)

disposition_for(path) == IF path[1] \in {"providers", "accounts"} THEN "Live" ELSE "RestartRequired"

(***************************************************************************)
(* The commands.                                                           *)
(***************************************************************************)

ConfiguredAccounts(text) ==
    {<<e[1][2], e[2]["name"]>> : e \in {e \in Meaning(text) : IsAccount(e[1])}}
ConfiguredKeys(text) == {e[2]["api_key"] : e \in {e \in Meaning(text) : IsAccount(e[1])}}
read_dashboard_public(text) ==
    LET said == {e[2]["public"] : e \in {e \in Meaning(text) : e[1] = Dashboard}}
    IN  IF said = {} THEN <<"true">> ELSE CHOOSE v \in said : TRUE
Toggled(value) == IF value = <<"true">> THEN <<"false">> ELSE <<"true">>
EnvOwned(text) == \E e \in Meaning(text) : e[1] = Server /\ "api_key_env" \in DOMAIN e[2]

Op(kind, p, value) == [kind |-> kind, provider |-> p, value |-> value]

Starts(e, op) ==
    /\ edits[e].at = "new"
    /\ operated < MaxOps
    /\ operated' = operated + 1
    /\ edits' = [edits EXCEPT ![e] = [NewEdit EXCEPT !.at = "chosen", !.op = op]]
    /\ UNCHANGED document

\* `set` writes a key the section must already have.
set_server_value(e) == \E v \in Settings : Starts(e, Op("set", <<>>, v))

\* `dashboard-public` without a value toggles what it reads before the lock.
set_dashboard_public(e) ==
    \E v \in {<<"true">>, <<"false">>, Toggled(read_dashboard_public(document))} :
        Starts(e, Op("public", <<>>, v))

\* `newkey` (and onboarding): an environment-owned key is left alone.
write_server_key(e) == ~EnvOwned(document) /\ \E v \in Settings : Starts(e, Op("key", <<>>, v))

init_config(e) == Starts(e, Op("init", <<>>, <<>>))

\* `connect`: the provider and its key come from the operator's prompts.
connect(e) == \E p \in EditIds, credential \in Credentials : Starts(e, Op("connect", p, credential))

\* `logout`: the account is matched against the file read before the lock.
logout(e) == \E a \in ConfiguredAccounts(document) : Starts(e, Op("logout", a[1], a[2]))

\* The edited text, for each command.
Edited(text, op) ==
    CASE op.kind = "set" -> replace_or_insert_section_value(text, Server, "port", op.value, FALSE, FALSE)
      [] op.kind = "public" -> replace_or_insert_section_value(text, Dashboard, "public", op.value, TRUE, TRUE)
      [] op.kind = "key" -> replace_or_insert_section_value(text, Server, "api_key", op.value, TRUE, TRUE)
      [] op.kind = "init" -> DEFAULT_CONFIG
      [] op.kind = "logout" -> remove_account_block(text, op.provider, op.value)
      [] op.kind = "connect" ->
             LET name == unique_account_name(op.provider, account_names(text))
             IN  IF line_header(text, Provider(op.provider)) # {}
                 THEN append_account(text, op.provider, name, op.value)
                 ELSE InsertProvider(text, op.provider, name, op.value)

Duplicate(text, op) == op.kind = "connect" /\ <<"key", op.value>> \in ConfiguredKeys(text)

\* Under the lock: read again, edit, validate, classify.
EditText(e) ==
    LET text == document
        next == Edited(text, edits[e].op)
    IN  /\ edits[e].at = "chosen"
        /\ ~Duplicate(text, edits[e].op)
        /\ Accepts(next)
        /\ edits' = [edits EXCEPT ![e] = [@ EXCEPT
               !.at = "edited", !.read = text, !.next = next,
               !.changes = classify_transition(Meaning(text), Meaning(next))]]
        /\ UNCHANGED <<document, operated>>

\* A key already configured, a section or key that is not there, a candidate the
\* parser refuses: nothing is written.
EditRefused(e) ==
    /\ edits[e].at = "chosen"
    /\ Duplicate(document, edits[e].op) \/ ~Accepts(Edited(document, edits[e].op))
    /\ edits' = [edits EXCEPT ![e] = NewEdit]
    /\ UNCHANGED <<document, operated>>

\* atomic_replace: the candidate takes the file's place ...
ReplaceDocument(e) ==
    /\ edits[e].at = "edited"
    /\ document' = edits[e].next
    /\ edits' = [edits EXCEPT ![e] = NewEdit]
    /\ UNCHANGED operated

\* ... or the write fails, and the file is as it was.
ReplaceRefused(e) ==
    /\ edits[e].at = "edited"
    /\ edits' = [edits EXCEPT ![e] = NewEdit]
    /\ UNCHANGED <<document, operated>>

EditNext ==
    \E e \in Editors :
        \/ set_server_value(e) \/ set_dashboard_public(e) \/ write_server_key(e)
        \/ init_config(e) \/ connect(e) \/ logout(e)
        \/ EditText(e) \/ EditRefused(e) \/ ReplaceDocument(e) \/ ReplaceRefused(e)

(***************************************************************************)
(* Properties.                                                             *)
(***************************************************************************)

KeysOf(said, table) ==
    LET held == {e[2] : e \in {e \in said : e[1] = table}}
    IN  IF held = {} THEN <<>> ELSE CHOOSE keys \in held : TRUE
WithKey(said, table, key, value) ==
    {e \in said : e[1] # table} \cup {<<table, One(key, value) @@ KeysOf(said, table)>>}
AccountsUnder(said, p) == {e \in said : e[1] = AccountTable(p)}

\* What each command promises to change in what the document says.
Intended(said, op, then) ==
    CASE op.kind = "set" -> then = WithKey(said, Server, "port", op.value)
      [] op.kind = "public" -> then = WithKey(said, Dashboard, "public", op.value)
      [] op.kind = "key" -> then = WithKey(said, Server, "api_key", op.value)
      [] op.kind = "init" -> then = Meaning(DEFAULT_CONFIG)
      [] op.kind = "connect" ->
             /\ said \subseteq then
             /\ \E a \in AccountsUnder(then, op.provider) \ said :
                    /\ a[2]["api_key"] = <<"key", op.value>>
                    /\ then \ said \subseteq {a} \cup {e \in then : Under(e[1], op.provider)
                                                  /\ ProviderPart(said, op.provider) = {}}
      [] op.kind = "logout" ->
             LET left == {e \in said : ~(e[1] = AccountTable(op.provider) /\ e[2]["name"] = op.value)}
             IN  then = {e \in left : AccountsUnder(left, op.provider) = {} => ~Under(e[1], op.provider)}

\* An edit is exact: what a command writes says what the text it read said, with
\* the one change the command is for (connect adds one account and, for a new
\* provider, its tables; logout takes one account and, with the last, its
\* provider; the others set one key).  The transition it reports is empty only
\* when nothing changed, and asks for a restart exactly when a table outside the
\* providers differs.
EditsAreExact ==
    \A e \in Editors :
        edits[e].at = "edited" =>
            LET old == Meaning(edits[e].read)
                new == Meaning(edits[e].next)
            IN  /\ Intended(old, edits[e].op, new)
                /\ edits[e].changes = {} <=> old = new
                /\ (\E path \in edits[e].changes : disposition_for(path) = "RestartRequired")
                       <=> \E t \in SymmetricDifference(old, new) : t[1][1] # "providers"

\* The module header: "the line editor keeps unrelated comments and sections
\* intact".  A command on one provider keeps what every other provider has.
UnrelatedSectionsStay ==
    \A e \in Editors :
        (edits[e].at = "edited" /\ edits[e].op.kind = "logout") =>
            \A entry \in Meaning(edits[e].read) :
                Under(entry[1], edits[e].op.provider) \/ entry \in Meaning(edits[e].next)
=============================================================================
