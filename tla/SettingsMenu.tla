---------------------------- MODULE SettingsMenu ----------------------------
(***************************************************************************)
(* The modal menus of the session (src/src/session.rs): the settings tree, *)
(* the drop-downs, the two model pickers, the memory and pin browsers, and *)
(* what a choice made in them does to the live settings, to config.toml,   *)
(* to the memory store and to the engine.                                  *)
(*                                                                         *)
(* The menu is read from standard input in chunks.  Every key of a chunk   *)
(* is matched against the same menu (AfterKeys), and only then is what the *)
(* keys asked for carried out, in a fixed order (Applied).                 *)
(*                                                                         *)
(* The settings table keeps one row for each way the code has of applying  *)
(* one.  A filter is the number of letters typed, and Matching says which  *)
(* rows contain them; the notices are left out.                            *)
(***************************************************************************)
EXTENDS MemoryStore, TLC

CONSTANTS
  Groups,     \* the settings groups this instance has
  Chunks,     \* the key sequences one read of standard input can deliver
  Matching,   \* the rows that match a filter that has letters
  TextCap,    \* longest text typed into the field or as a filter
  MaxChanges, \* changes of a setting, a slot, a pin or the jobs; the last one ends the keys
  MaxOpens,   \* menus opened from the prompt
  MaxPending  \* jobs the engine may be behind by when a key is read

Root   == "root"                     \* Option<String>::None of Menu::group
Absent == "none"                     \* Option::None of a setting or a model
Custom == "custom"                   \* the sentinel at the end of a list

Entry(g, r, values) == [group |-> g, row |-> r, values |-> values]
FastRows ==
  << Entry("fast lane", "provider", <<"auto", "ollama", "openai">>),
     Entry("fast lane", "model", <<>>),
     Entry("fast lane", "thinking", <<"off", "low", "high">>),
     Entry("fast lane", "command_first", <<"on", "off">>) >>
SlowRows ==
  << Entry("slow lane", "mode", <<"manual", "query", "waldorf">>),
     Entry("slow lane", "provider", <<"auto", "ollama", "openai">>),
     Entry("slow lane", "model", <<>>),
     Entry("slow lane", "thinking", <<"medium", "high", "auto">>) >>
ContextRows == << Entry("context", "platform", <<"on", "off">>) >>
MemoryRows  == << Entry("memory", "memory", <<"off", "on">>),
                  Entry("memory", "limit", <<>>) >>
TerminalRows ==
  << Entry("nerd stuff", "working_bar", <<"on", "off">>),
     Entry("nerd stuff", "bar_rate_ms", <<"6", "7", Custom>>),
     Entry("nerd stuff", "bar_slide_ms", <<"7", "8", Custom>>) >>
PinRows     == << Entry("working context", "card_budget", <<"5", "6", Custom>>) >>
LoggingRows == << Entry("logging", "record", <<"off", "on">>),
                  Entry("logging", "max_mb", <<"7", "8", Custom>>) >>
AllRows     == FastRows \o SlowRows \o ContextRows \o MemoryRows \o TerminalRows \o PinRows
                 \o LoggingRows
Table       == Only(AllRows, [group : Groups, row : STRING, values : Seq(STRING)])

Here(groups) == Only(groups, Groups)
PlainGroups  == Here(<<"fast lane", "slow lane", "context", "memory">>)
DebugGroups  == Here(<<"nerd stuff", "working context", "logging">>)
Advanced    == {"command_first"}          \* rows hidden until expert is on
OpensMenu   == {"model"}                  \* rows that open a picker
TextEntry   == {"limit"}                  \* rows that take only a typed value
Numeric     == {"bar_rate_ms", "bar_slide_ms", "card_budget", "max_mb"}
CustomBounds == [r \in Numeric |-> IF r = "max_mb" THEN [lo |-> 1, hi |-> 90] ELSE [lo |-> 3, hi |-> 50]]
Fallback     == [r \in Numeric |-> CASE r = "card_budget" -> "0" [] r = "max_mb" -> "500"
                                     [] OTHER -> "60"]

RowsOf(g) == Only(Table, {e \in ToSet(Table) : e.group = g})

\* A row is a (group, name) pair: names repeat across the lanes.
RowValues(g, r) ==
  IF g = Root THEN IF r \in {"commentary", "expert"} THEN <<"off", "on">> ELSE <<>>
  ELSE LET hits == {e \in ToSet(Table) : e.group = g /\ e.row = r}
       IN  IF hits = {} THEN <<>> ELSE (CHOOSE e \in hits : TRUE).values

----------------------------------------------------------------------------
VARIABLES
  menu,      \* the open menu; kind "None" when the prompt has the keyboard
  live,      \* <<group, row>> -> the session's live value
  file,      \* <<group, row>> -> the value in config.toml, or Absent
  store,     \* the memory store
  pins,      \* the pins by id, in order, and the next id
  shown,     \* engine_model: what the fast lane's row shows
  slowShown, \* opt_slow_model
  probation, \* the model the crash fuse was told to watch
  engine,    \* an engine is running
  jobs,      \* the control jobs sent to the worker
  events,    \* the worker's events not read yet
  changes, opens

\* Rows of the table whose value is a setting of the session (memory's are the store's).
Keys == {<<Root, "commentary">>, <<Root, "expert">>}
        \cup {<<e.group, e.row>> : e \in {e \in ToSet(Table) : e.group # "memory" /\ e.row \notin OpensMenu}}
ModelKey == <<"fast lane", "model">>

\* What the session starts with when config.toml says nothing of a row.
Default ==
  [k \in Keys |->
     CASE k[1] = "slow lane" /\ k[2] # "mode" -> Absent
       [] k = <<"fast lane", "provider">>     -> "auto"
       [] k[2] = "mode"                       -> "manual"
       [] k[2] \in {"command_first", "platform", "working_bar"} -> "on"
       [] k[2] \in Numeric                    -> "7"
       [] OTHER                               -> "off"]

\* The file is taken whole or not at all: one of the bar's rows saved as a
\* text where a number belongs, and the next start reads nothing of it.
BarRows        == {<<"nerd stuff", r>> : r \in Numeric}
Numerals       == {ToString(n) : n \in 0 .. 99}
ASSUME NumeralsAssumption == Absent \notin Numerals
Readable       == \A k \in BarRows \cap Keys : file[k] \in Numerals \cup {Absent}
AtNextStart(k) == IF file[k] = Absent \/ ~Readable THEN Default[k] ELSE file[k]

\* The rows whose value the worker keeps a copy of.
Told == {k \in Keys : k[1] \in {"fast lane", "slow lane", "context"}}

Job(k, key, v) == [k |-> k, key |-> key, v |-> v]
Plain(k)       == Job(k, ModelKey, "")
----------------------------------------------------------------------------
\* The rows on screen.
Row(t, n, v) == [t |-> t, n |-> n, v |-> v, id |-> 0]
NoRow        == Row("none", "", "")
Up           == Row("up", "..", "")
NewRow       == Row("new", "new", "")
SlotRow(s)   == [Row("slot", "slot", ToString(s.text)) EXCEPT !.id = s.id]
PinRow(id)   == [Row("pin", "pin", "") EXCEPT !.id = id]
GroupRow(g)  == Row("group", g, "")

OnOff(b) == IF b THEN "on" ELSE "off"
MapRows(s, Op(_)) == [i \in DOMAIN s |-> Op(s[i])]

\* The value a row shows.  Absent is shown as what it stands for; a model row
\* shows the binding, which nothing reads back.
Shows(w, g, r) ==
  CASE r \in OpensMenu -> ""
    [] r = "memory"    -> OnOff(w.store.enabled)
    [] r = "limit"     -> ToString(w.store.limit)
    [] OTHER           -> IF w.live[<<g, r>>] # Absent THEN w.live[<<g, r>>]
                          ELSE IF r = "thinking" THEN "medium" ELSE "auto"

\* settings_items: the groups at the root, or ".." and the rows of one group.
SettingsItems(w, g) ==
  LET expert   == w.live[<<Root, "expert">>] = "on"
      set(h, r) == Row("set", r, Shows(w, h, r))
      rows     == Only(RowsOf(g), {e \in ToSet(Table) : expert \/ e.row \notin Advanced})
  IN  IF g = Root
      THEN <<set(Root, "commentary")>> \o MapRows(PlainGroups, GroupRow) \o <<set(Root, "expert")>>
           \o (IF expert THEN MapRows(DebugGroups, GroupRow) ELSE <<>>)
      ELSE <<Up>> \o [i \in DOMAIN rows |-> set(g, rows[i].row)]

MemoryItems(s) == <<NewRow>> \o MapRows(s.slots, SlotRow)
PinItems(ids)  == <<NewRow>> \o MapRows(ids, PinRow)

----------------------------------------------------------------------------
\* A menu.
NoParent == [kind |-> "None", group |-> Root]
Open(kind) ==
  [kind |-> kind, items |-> <<>>, filter |-> 0, cursor |-> 0, loaded |-> kind = "Memory",
   armed |-> NoRow, typing |-> FALSE, text |-> <<>>, composeRow |-> "", viewing |-> NoRow,
   group |-> Root, valueRow |-> <<Root, "">>, parent |-> NoParent]
NoMenu == Open("None")

Filtered(m) == Only(m.items, {r \in ToSet(m.items) : m.filter = 0 \/ r.n \in Matching \/ r.v \in Matching})
Selected(m) == IF m.cursor < Len(Filtered(m)) THEN Filtered(m)[m.cursor + 1] ELSE NoRow
Clamp(m) ==
  LET n == Len(Filtered(m))
  IN  [m EXCEPT !.cursor = IF @ < n THEN @ ELSE IF n = 0 THEN 0 ELSE n - 1]
HasWayUp(m) == m.parent # NoParent \/ m.group # Root
Browser(m)  == m.kind \in {"Memory", "Pins"}

----------------------------------------------------------------------------
(* One key.  A request collects what the keys of a chunk ask for.          *)
Quiet == [committed |-> NoRow, close |-> FALSE, up |-> FALSE, into |-> Root,
          picked |-> NoRow, typedRow |-> "", typed |-> <<>>, noted |-> FALSE, note |-> <<>>,
          view |-> NoRow]

\* The field owns every key until Enter or Esc.
ComposeKey(s, key) ==
  LET m == s.m
      done == [m EXCEPT !.typing = FALSE, !.text = <<>>, !.composeRow = ""]
  IN  CASE key.k = "Char" /\ Len(m.text) < TextCap -> [s EXCEPT !.m.text = Append(@, key.c)]
        [] key.k = "Backspace" /\ m.text # <<>>    -> [s EXCEPT !.m.text = Front(@)]
        [] key.k = "KillLine"                      -> [s EXCEPT !.m.text = <<>>]
        [] key.k = "Esc"                           -> [s EXCEPT !.m = done]
        [] key.k = "Enter" /\ m.composeRow # ""    ->
             [m |-> done, req |-> [s.req EXCEPT !.typedRow = m.composeRow, !.typed = m.text]]
        [] key.k = "Enter" /\ m.composeRow = ""    ->
             [m |-> done, req |-> [s.req EXCEPT !.noted = TRUE, !.note = m.text]]
        [] OTHER                                   -> s

\* The reading pane scrolls, and leaves to the list.
PaneKey(s, key) == IF key.k \in {"Esc", "Enter"} THEN [s EXCEPT !.m.viewing = NoRow] ELSE s

\* Mutant: Esc leaves the menu from wherever it is.
EscCloses(s) ==
  IF s.m.armed # NoRow THEN [s EXCEPT !.m.armed = NoRow] ELSE [s EXCEPT !.req.close = TRUE]

\* Esc disarms, else goes one step back, else leaves.
EscKey(s) ==
  IF s.m.armed # NoRow THEN [s EXCEPT !.m.armed = NoRow]
  ELSE IF HasWayUp(s.m) THEN [s EXCEPT !.req.up = TRUE]
  ELSE [s EXCEPT !.req.close = TRUE]

SideKey(s, key) ==
  CASE key.k = "Right" /\ s.m.kind = "Settings" /\ Selected(s.m).t = "group" ->
         [s EXCEPT !.req.into = Selected(s.m).n]
    [] key.k = "Left" /\ HasWayUp(s.m) -> [s EXCEPT !.req.up = TRUE]
    [] OTHER -> s

EnterKey(s) ==
  LET m   == s.m
      sel == Selected(m)
  IN  IF sel.t = "up" /\ ~Browser(m) THEN [s EXCEPT !.req.up = TRUE]
      ELSE CASE m.kind \in {"Model", "SlowModel"} ->
                  [s EXCEPT !.req.committed = sel, !.req.up = @ \/ m.parent # NoParent,
                            !.req.close = @ \/ m.parent = NoParent]
             [] m.kind = "ValuePick" /\ sel # NoRow ->
                  [s EXCEPT !.req.picked = sel, !.req.up = TRUE]
             [] m.kind = "Settings" /\ sel.t = "group" -> [s EXCEPT !.req.into = sel.n]
             [] m.kind = "Settings" /\ sel.t # "group" -> [s EXCEPT !.req.committed = sel]
             [] Browser(m) /\ sel = NewRow ->
                  [s EXCEPT !.m.typing = TRUE, !.m.text = <<>>, !.m.armed = NoRow]
             [] Browser(m) /\ sel # NewRow -> [s EXCEPT !.m.armed = NoRow, !.req.view = sel]
             [] OTHER -> s

\* Backspace deletes too, unless there is a filter it can edit.
Destroys(m, key) == Browser(m) /\ (key.k = "Delete" \/ (key.k = "Backspace" /\ m.filter = 0))

\* The first of them arms the row, a second on the same row is the request.
DestroyKey(s) ==
  LET sel == Selected(s.m)
  IN  CASE sel \in {NewRow, NoRow} -> [s EXCEPT !.m.armed = NoRow]
        [] sel \notin {NewRow, NoRow} /\ s.m.armed = sel ->
             [s EXCEPT !.m.armed = NoRow, !.req.committed = sel]
        [] OTHER -> [s EXCEPT !.m.armed = sel]

\* Moving and filtering disarm; a new filter starts from the top.
MoveKey(s, key) ==
  [s EXCEPT !.m = LET m == [s.m EXCEPT !.armed = NoRow]
                  IN  IF key.k = "Down" THEN Clamp([m EXCEPT !.cursor = @ + 1])
                      ELSE [m EXCEPT !.cursor = IF @ = 0 THEN 0 ELSE @ - 1]]
Longer(n)  == IF n < TextCap THEN n + 1 ELSE n
Shorter(n) == IF n = 0 THEN 0 ELSE n - 1
FilterKey(s, key) ==
  [s EXCEPT !.m = LET m == [s.m EXCEPT !.armed = NoRow]
                  IN  CASE key.k = "Char"      -> [m EXCEPT !.filter = Longer(@), !.cursor = 0]
                        [] key.k = "KillLine"  -> [m EXCEPT !.filter = 0, !.cursor = 0]
                        [] key.k = "Backspace" -> Clamp([m EXCEPT !.filter = Shorter(@)])
                        [] OTHER               -> m]

ListKey(s, key) ==
  CASE key.k = "Esc"                -> EscKey(s)
    [] key.k \in {"Left", "Right"}  -> SideKey(s, key)
    [] key.k = "Enter"              -> EnterKey(s)
    [] key.k \in {"Up", "Down"}     -> MoveKey(s, key)
    [] key.k \in {"Delete", "Backspace"} /\ Destroys(s.m, key) -> DestroyKey(s)
    [] OTHER                        -> FilterKey(s, key)

AfterKey(s, key) ==
  IF s.m.typing THEN ComposeKey(s, key)
  ELSE IF s.m.viewing # NoRow THEN PaneKey(s, key)
  ELSE ListKey(s, key)

AfterKeys(m, chunk) ==
  LET after[n \in 0 .. Len(chunk)] ==
        IF n = 0 THEN [m |-> m, req |-> Quiet] ELSE AfterKey(after[n - 1], chunk[n])
  IN  after[Len(chunk)]
----------------------------------------------------------------------------
(* What the keys asked for.  w holds everything a choice can change.       *)
Send(w, js) == [w EXCEPT !.jobs = IF engine THEN @ \o js ELSE @]

Digits    == {"9"}                   \* the other symbol of a typed text is a letter
IsNumber(text) == text # <<>> /\ ToSet(text) \subseteq Digits
Number(text)   == FoldLeft(LAMBDA n, c : 10 * n + 9, 0, text)
Within(n, b)   == IF n \in b.lo .. b.hi THEN n ELSE IF n < b.lo THEN b.lo ELSE b.hi

\* at_command /path: only a file that can be read becomes a pin.
PinFromField(w, kind, req, readable) ==
  IF kind # "Pins" \/ ~req.noted \/ req.note = <<>> THEN w
  ELSE LET kept == IF readable THEN [next |-> w.pins.next + 1, ids |-> Append(w.pins.ids, w.pins.next)]
                   ELSE w.pins
       IN  [w EXCEPT !.pins = kept, !.menu = Clamp([@ EXCEPT !.items = PinItems(kept.ids)])]

\* Enter on a slot or a pin that is still there opens it for reading.
OpenPane(w, kind, req) ==
  LET there == \/ kind = "Pins" /\ req.view.id \in ToSet(w.pins.ids)
               \/ kind = "Memory" /\ req.view.id \in SlotIds(w.store)
  IN  IF req.view # NoRow /\ there THEN [w EXCEPT !.menu.viewing = req.view] ELSE w

DropPin(w, kind, req) ==
  IF kind # "Pins" \/ req.committed = NoRow THEN w
  ELSE LET ids == Only(w.pins.ids, ToSet(w.pins.ids) \ {req.committed.id})
       IN  [w EXCEPT !.pins.ids = ids, !.menu = Clamp([@ EXCEPT !.items = PinItems(ids)])]

MemoryFromField(w, kind, req) ==
  IF kind = "Pins" \/ ~req.noted THEN w
  ELSE LET kept == Add(w.store, req.note)
       IN  [w EXCEPT !.store = kept, !.menu = Clamp([@ EXCEPT !.items = MemoryItems(kept)])]

\* Where a typed number goes: limit to the store, bar_rate_ms to its own
\* setting and every other row to the length of the slide.
TypedKey(row) == <<"nerd stuff", IF row = "bar_rate_ms" THEN row ELSE "bar_slide_ms">>

StoreTyped(w, row, text) ==
  CASE row = "limit" /\ IsNumber(text) -> [w EXCEPT !.store = SetLimit(@, Number(text))]
    [] row \in Numeric /\ IsNumber(text) ->
         LET v == ToString(Within(Number(text), CustomBounds[row]))
         IN  [w EXCEPT !.live[TypedKey(row)] = v, !.file[TypedKey(row)] = v]
    [] OTHER -> w

TypeSetting(w, req) ==
  IF req.typedRow = "" THEN w
  ELSE LET u == StoreTyped(w, req.typedRow, req.typed)
       IN  [u EXCEPT !.menu = Clamp([@ EXCEPT !.items = SettingsItems(u, u.menu.group)])]

Option(key, v) == Job("SetOption", key, v)
Keep(w, key, v) == [w EXCEPT !.live[key] = v, !.file[key] = v]

\* Mutant: the row's name decides, and the fast lane's arm comes first.
ApplySlowByName(w, key, v) ==
  LET fast == <<"fast lane", key[2]>>
  IN  Send(Keep(w, fast, v),
           <<Option(fast, v)>> \o (IF key[2] = "provider" THEN <<Plain("Rebind")>> ELSE <<>>))

\* A row of the slow lane is an override: auto is its absence.
ApplySlow(w, key, v) ==
  LET kept == IF v = "auto" THEN Absent ELSE v
  IN  Send(Keep(w, key, kept),
           <<Option(key, v)>> \o (IF key[2] = "provider" THEN <<Plain("Rebind")>> ELSE <<>>))

\* A number that does not parse becomes the row's fallback, and the bar's
\* rows are written to the file as they were read off the list.
ApplyNumber(w, key, v) ==
  LET n == IF v \in Numerals THEN v ELSE Fallback[key[2]]
  IN  [w EXCEPT !.live[key] = n,
                !.file[key] = IF key[1] = "nerd stuff" THEN v ELSE n]

ApplySwitch(w, key, v) == Keep(w, key, OnOff(v = "on"))

\* Mutant: the session applies and saves the option, and the engine is not told.
ApplyHere(w, key, v) == Keep(w, key, v)

\* Mutant: applied and told, and not saved.
ApplyUnsaved(w, key, v) ==
  LET kept == IF key[2] \in {"command_first", "platform"} THEN OnOff(v = "on") ELSE v
  IN  Send([w EXCEPT !.live[key] = kept], <<Option(key, v)>>)

\* The options the worker holds a copy of.
ApplyEngine(w, key, v) ==
  LET kept == IF key[2] \in {"command_first", "platform"} THEN OnOff(v = "on") ELSE v
  IN  Send(Keep(w, key, kept),
           <<Option(key, v)>> \o (IF key[2] = "provider" THEN <<Plain("Rebind")>> ELSE <<>>))

Apply(w, g, name, v) ==
  CASE g = "slow lane" /\ name \in {"provider", "thinking"} -> ApplySlow(w, <<g, name>>, v)
    [] name \in Numeric -> ApplyNumber(w, <<g, name>>, v)
    [] name = "memory"  -> [w EXCEPT !.store = SetEnabled(@, v = "on")]
    [] name \in {"commentary", "expert", "working_bar", "record"} -> ApplySwitch(w, <<g, name>>, v)
    [] OTHER -> ApplyEngine(w, <<g, name>>, v)

Cycled(values, cur) ==
  LET at == {i \in DOMAIN values : values[i] = cur}
  IN  IF at = {} THEN values[1] ELSE values[1 + (Min(at) % Len(values))]

\* The text of a row before any aside, which is what a drop-down commits.  A
\* setting's row says "name: value", which is no value of any setting: the name
\* stands for it.
Label(row) == IF row.t = "value" THEN row.v ELSE row.n

Field(w, name) == [w EXCEPT !.menu.typing = TRUE, !.menu.text = <<>>, !.menu.composeRow = name]

\* A committed or picked row.  then says what else the chunk has to do:
\* open a drop-down, open a picker, stop here, or go on.
Choice(w, then) == [w |-> w, then |-> then]
ApplyRow(w, g, name, v) ==
  IF v = Custom THEN Choice(Field(w, name), "stop")
  ELSE LET u == Apply(w, g, name, v)
       IN  Choice([u EXCEPT !.menu.items = SettingsItems(u, u.menu.group)], "on")

Commit(w, kind, req) ==
  LET row    == req.committed
      g      == w.menu.group
      values == RowValues(g, row.n)
  IN  IF req.picked # NoRow
      THEN ApplyRow(w, w.menu.valueRow[1], w.menu.valueRow[2], Label(req.picked))
      ELSE IF kind # "Settings" \/ row = NoRow THEN Choice(w, "on")
      ELSE CASE row.n \in TextEntry -> Choice(Field(w, row.n), "on")
             [] row.n \in OpensMenu -> Choice(w, IF g = "slow lane" THEN "slow picker" ELSE "picker")
             [] row.n \notin TextEntry \cup OpensMenu /\ Len(values) > 2 -> Choice(w, "values")
             [] row.n \notin TextEntry \cup OpensMenu /\ Len(values) \in 1 .. 2 ->
                  ApplyRow(w, g, row.n, Cycled(values, row.v))
             [] OTHER -> Choice(w, "on")

ForgetSlot(w, kind, req) ==
  IF kind # "Memory" \/ req.committed = NoRow THEN w
  ELSE LET kept == Delete(w.store, req.committed.id)
       IN  [w EXCEPT !.store = kept, !.menu = Clamp([@ EXCEPT !.items = MemoryItems(kept)])]

\* Bound for the session only: the slow lane's model is never saved.
BindSlowModel(w, kind, req) ==
  IF kind # "SlowModel" \/ req.committed = NoRow \/ ~engine THEN w
  ELSE [Send(w, <<Job("SetSlowModel", ModelKey, req.committed.n)>>) EXCEPT !.slowShown = req.committed.n]

BindFastModel(w, kind, req) ==
  LET name == req.committed.n
  IN  IF kind # "Model" \/ req.committed = NoRow \/ ~engine THEN w
      ELSE IF name = "auto" THEN [Send(w, <<Plain("Rebind")>>) EXCEPT !.file[ModelKey] = Absent]
      ELSE [Send(w, <<Job("SetModel", ModelKey, name)>>)
              EXCEPT !.file[ModelKey] = name, !.probation = name]

\* The drop-down opens on the value the row shows, else on custom.
OpenDropDown(w, name) ==
  LET g      == w.menu.group
      values == RowValues(g, name)
      cur    == Shows(w, g, name)
      at     == {i \in DOMAIN values : values[i] = cur}
      custom == {i \in DOMAIN values : values[i] = Custom}
  IN  [w EXCEPT !.menu =
         [Open("ValuePick") EXCEPT
            !.items = <<Up>> \o [i \in DOMAIN values |-> Row("value", "", values[i])],
            !.cursor = IF at # {} THEN Min(at) ELSE IF custom # {} THEN Min(custom) ELSE 0,
            !.loaded = TRUE, !.valueRow = <<g, name>>,
            !.parent = [kind |-> "Settings", group |-> g]]]

\* The list is asked for now and fills in when the worker answers.
OpenPicker(w, slow, g) ==
  IF ~engine THEN w
  ELSE [Send(w, <<Plain(IF slow THEN "ListSlowModels" ELSE "ListModels")>>) EXCEPT
          !.menu = [Open(IF slow THEN "SlowModel" ELSE "Model") EXCEPT
                      !.parent = [kind |-> "Settings", group |-> g]]]

\* Up out of a child menu restores its parent; up out of a group goes to the
\* root, on the row of that group; a group row goes into the group.
Enter(w, g, from) ==
  LET items == SettingsItems(w, g)
      back  == {i \in DOMAIN items : from # Root /\ items[i] = GroupRow(from)}
  IN  [w EXCEPT !.menu = [@ EXCEPT !.group = g, !.filter = 0, !.items = items,
                                   !.cursor = IF back = {} THEN 0 ELSE Min(back) - 1]]
Navigate(w, req) ==
  IF req.up /\ w.menu.parent # NoParent
  THEN Enter([w EXCEPT !.menu = [Open("Settings") EXCEPT !.loaded = TRUE]], w.menu.parent.group, Root)
  ELSE IF req.up THEN Enter(w, Root, w.menu.group)
  ELSE IF req.into # Root THEN Enter(w, req.into, Root)
  ELSE w

Finish(c, kind, req, g) ==
  LET a == BindFastModel(BindSlowModel(ForgetSlot(c.w, kind, req), kind, req), kind, req)
      b == CASE c.then = "values"      -> OpenDropDown(a, req.committed.n)
             [] c.then = "picker"      -> OpenPicker(a, FALSE, g)
             [] c.then = "slow picker" -> OpenPicker(a, TRUE, g)
             [] OTHER                  -> a
      n == Navigate(b, req)
  IN  IF c.then = "stop" THEN c.w
      ELSE IF req.close THEN [n EXCEPT !.menu = NoMenu] ELSE n

Applied(w, kind, req, g, readable) ==
  LET a == PinFromField(w, kind, req, readable)
      b == MemoryFromField(DropPin(OpenPane(a, kind, req), kind, req), kind, req)
  IN  Finish(Commit(TypeSetting(b, req), kind, req), kind, req, g)
----------------------------------------------------------------------------
settings == <<live, file, store, pins, slowShown, probation>>

SessionInit(isUp, named, slowNamed, stored) ==
  /\ menu = NoMenu
  /\ live = Default
  /\ file = [k \in Keys \cup {ModelKey} |-> IF k = ModelKey THEN named ELSE Absent]
  /\ store = stored
  /\ pins = [next |-> 1, ids |-> <<>>]
  /\ shown = Absent
  /\ slowShown = slowNamed
  /\ probation = Absent
  /\ engine = isUp
  /\ changes = 0
  /\ opens = 0

Count(changed) == /\ changes' = changes + (IF changed THEN 1 ELSE 0)
                  /\ changes' <= MaxChanges

\* One read of standard input while a menu is open.
MenuKeys(chunk, readable) ==
  /\ menu # NoMenu /\ changes < MaxChanges
  /\ Len(jobs) <= MaxPending
  /\ LET s == AfterKeys(menu, chunk)
         w == Applied([menu |-> s.m, live |-> live, file |-> file, store |-> store, pins |-> pins,
                       slowShown |-> slowShown, probation |-> probation, jobs |-> jobs],
                      menu.kind, s.req, menu.group, readable)
     IN  /\ menu' = w.menu /\ live' = w.live /\ file' = w.file /\ store' = w.store
         /\ pins' = w.pins /\ slowShown' = w.slowShown /\ probation' = w.probation
         /\ jobs' = w.jobs
  /\ Count(settings' # settings \/ jobs' # jobs)
  /\ UNCHANGED <<shown, engine, events, opens>>

Now == [live |-> live, store |-> store]

\* What each opening command of the prompt opens.
Opening(kind) ==
  CASE kind = "Settings" -> [Open("Settings") EXCEPT !.items = SettingsItems(Now, Root), !.loaded = TRUE]
    [] kind = "Debug"    -> [Open("Settings") EXCEPT !.items = SettingsItems(Now, "nerd stuff"),
                                                     !.group = "nerd stuff", !.loaded = TRUE]
    [] kind = "Help"     -> [Open("Help") EXCEPT !.items = <<Row("help", "help", "")>>, !.loaded = TRUE]
    [] kind = "Memory"   -> [Open("Memory") EXCEPT !.items = MemoryItems(store)]
    [] kind = "Pins"     -> [Open("Pins") EXCEPT !.items = PinItems(pins.ids), !.loaded = TRUE]
    [] OTHER             -> Open(kind)
Asking == [k \in {"Model", "SlowModel"} |-> IF k = "Model" THEN "ListModels" ELSE "ListSlowModels"]

\* #/settings, #/debug, #/help, #/memory, #@, #/model and #?/model.
OpenMenu(kind) ==
  /\ menu = NoMenu /\ changes < MaxChanges
  /\ opens < MaxOpens /\ opens' = opens + 1
  /\ Len(jobs) <= MaxPending
  /\ kind \in DOMAIN Asking => engine
  /\ menu' = Opening(kind)
  /\ jobs' = IF kind \in DOMAIN Asking THEN Append(jobs, Plain(Asking[kind])) ELSE jobs
  /\ UNCHANGED <<settings, shown, engine, events, changes>>

\* #/model NAME [save] and #?/model NAME: the same choices without a menu.
NameModel(name, save) ==
  /\ menu = NoMenu /\ engine
  /\ Len(jobs) <= MaxPending
  /\ jobs' = Append(jobs, IF name = "auto" THEN Plain("Rebind") ELSE Job("SetModel", ModelKey, name))
  /\ file' = IF save THEN [file EXCEPT ![ModelKey] = IF name = "auto" THEN Absent ELSE name] ELSE file
  /\ probation' = IF save /\ name # "auto" THEN name ELSE probation
  /\ Count(TRUE)
  /\ UNCHANGED <<menu, live, store, pins, slowShown, shown, engine, events, opens>>

NameSlowModel(name) ==
  /\ menu = NoMenu /\ engine
  /\ Len(jobs) <= MaxPending
  /\ jobs' = Append(jobs, Job("SetSlowModel", ModelKey, name))
  /\ Count(TRUE)
  /\ UNCHANGED <<menu, settings, shown, engine, events, opens>>

\* #/memory VERB: the store from the prompt, by id.
MemoryCommand(c) ==
  /\ menu = NoMenu
  /\ store' = Commanded(store, c)
  /\ Count(TRUE)
  /\ UNCHANGED <<menu, live, file, pins, slowShown, probation, shown, engine, jobs, events, opens>>

\* An answer of the model rewrites the store, with or without a menu open.
AnswerRewrites(forgets, notes) ==
  /\ store' = Rewrite(store, forgets, notes)
  /\ Count(TRUE)
  /\ UNCHANGED <<menu, live, file, pins, slowShown, probation, shown, engine, jobs, events, opens>>

\* Event::Ready names the model; Event::Caps refreshes an open settings menu.
ReadReady ==
  /\ events # <<>> /\ Head(events).k = "Ready"
  /\ shown' = Head(events).model
  /\ events' = Tail(events)
  /\ UNCHANGED <<menu, settings, engine, jobs, changes, opens>>

ReadCaps ==
  /\ events # <<>> /\ Head(events).k = "Caps"
  /\ menu' = IF menu.kind = "Settings" THEN [menu EXCEPT !.items = SettingsItems(Now, menu.group)] ELSE menu
  /\ events' = Tail(events)
  /\ UNCHANGED <<settings, shown, engine, jobs, changes, opens>>

ModelRows(list) == [i \in DOMAIN list |-> Row("model", list[i], "")]

\* Event::Models fills whichever menu still waits for a list.
ReadModels ==
  /\ events # <<>> /\ Head(events).k = "Models"
  /\ menu' = IF menu = NoMenu \/ menu.loaded THEN menu
             ELSE [menu EXCEPT !.loaded = TRUE,
                     !.items = (IF menu.parent # NoParent THEN <<Up>> ELSE <<>>)
                               \o <<Row("model", "auto", "")>> \o ModelRows(Head(events).list)]
  /\ events' = Tail(events)
  /\ UNCHANGED <<settings, shown, engine, jobs, changes, opens>>

\* The worker is gone: its pipe hung up.
EngineLost ==
  /\ engine /\ events = <<>>
  /\ engine' = FALSE
  /\ shown' = Absent
  /\ jobs' = <<>>
  /\ UNCHANGED <<menu, settings, events, changes, opens>>

ReadEvent == ReadReady \/ ReadCaps \/ ReadModels
=============================================================================
