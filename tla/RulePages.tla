------------------------------ MODULE RulePages ------------------------------
(***************************************************************************)
(* The policy page of the dashboard over the rule table: the switches of   *)
(* the list (rule-toggle.tsx), the create dialog (create-rule-dialog.tsx), *)
(* the requests they send (lib/api.ts) and the router.refresh() that       *)
(* follows an answer.  One tab; the other tabs, which share nothing with   *)
(* it but the server, are among the other clients of the API.              *)
(*                                                                         *)
(* A request is a message: the server takes it and answers it later, the   *)
(* answer or the request may be lost, and a request the page has given up  *)
(* on may still arrive.  A switch keeps what it showed when it was mounted *)
(* (useState) and what it was last set to: a refresh mounts and unmounts   *)
(* switches and changes none that stays.                                   *)
(*                                                                         *)
(* A crash of the server loses the requests it holds, which Lose covers.   *)
(* The second dialog, which a page without rules offers, is left out.      *)
(***************************************************************************)
EXTENDS RuleTable, RuleForm

CONSTANTS
  Rows,        \* the rules of the table when the page is first loaded
  Switches,    \* the ids of the rules whose switch is used
  Forms,       \* what operators may type into the form
  uuids        \* the fresh ids, in the order they are drawn; bound: rules sent

ASSUME PagesAssumption ==
  /\ uuids \in Seq(RuleIds) /\ \A i, j \in DOMAIN uuids : uuids[i] = uuids[j] => i = j
  /\ \A r \in Rows : IsRule(r) /\ \A i \in DOMAIN uuids : uuids[i] # r.id
  /\ \A f \in Forms : IsForm(f)
  /\ Null \notin BOOLEAN \cup [on : BOOLEAN, busy : BOOLEAN]

VARIABLES
  page,        \* page[id]: the switch of rule id, Null when not mounted
  dialog,      \* the create dialog: its state variables and the number of its filling
  requests,    \* the requests under way
  refreshing,  \* router.refresh() is under way
  doubt,       \* history: the rules whose stored state the page cannot know
  made,        \* history: the form and the filling of each rule the dialog sent
  slipped      \* history: dialog closed during a request, or told of a failure wrongly

pagesVars == <<table, page, dialog, requests, refreshing, doubt, made, slipped>>

\* A request: heard while the page waits for the answer, answer Null until the server
\* has taken it.  rule is the posted rule, value the enabled sent.
Patch(id, value) == [kind |-> "patch", id |-> id, rule |-> Null, value |-> value,
                     answer |-> Null, heard |-> TRUE]
Post(rule) == [kind |-> "post", id |-> rule.id, rule |-> rule, value |-> TRUE,
               answer |-> Null, heard |-> TRUE]

mounted(id) == IF id \in ids(table) THEN [on |-> stored(table, id), busy |-> FALSE] ELSE Null
NewDialog(filling) == [open |-> FALSE, busy |-> FALSE, form |-> BlankForm, filling |-> filling]

PagesInit ==
  /\ table = Rows
  /\ page = [id \in Switches |-> mounted(id)]
  /\ dialog = NewDialog(0)
  /\ requests = {}
  /\ refreshing = FALSE
  /\ doubt = {}
  /\ made = <<>>
  /\ slipped = FALSE

-----------------------------------------------------------------------------
(* Loading and refreshing the page                                         *)

\* The components that sent these are gone: nobody hears the answers.
Abandon(gone) ==
  requests' = {q \in {IF r \in gone THEN [r EXCEPT !.heard = FALSE] ELSE r : r \in requests} :
                 q.heard \/ q.answer = Null}

\* The page is loaded anew: switches and dialog start over.
Load ==
  /\ page' = [id \in Switches |-> mounted(id)]
  /\ Abandon(requests)
  /\ dialog' = NewDialog(Len(made))
  /\ refreshing' = FALSE
  /\ doubt' = {}
  /\ UNCHANGED <<table, made, slipped>>

\* router.refresh(): new rows are mounted, rows that are gone are unmounted.
Refresh ==
  /\ refreshing
  /\ refreshing' = FALSE
  /\ page' = [id \in Switches |->
                IF id \in ids(table) /\ page[id] # Null THEN page[id] ELSE mounted(id)]
  /\ doubt' = {id \in doubt : id \in ids(table) /\ page[id] # Null}
  /\ Abandon({q \in requests : q.kind = "patch" /\ q.id \notin ids(table)})
  /\ UNCHANGED <<table, dialog, made, slipped>>

\* The rules cannot be loaded: the page shows that instead of the list.
RefreshFails ==
  /\ refreshing
  /\ refreshing' = FALSE
  /\ page' = [id \in Switches |-> Null]
  /\ doubt' = {}
  /\ Abandon({q \in requests : q.kind = "patch"})
  /\ UNCHANGED <<table, dialog, made, slipped>>

-----------------------------------------------------------------------------
(* The switch                                                              *)

\* Optimistic: the switch moves at once and sends the state it now shows.
Toggle(id) ==
  /\ page[id] # Null /\ ~page[id].busy
  /\ page' = [page EXCEPT ![id] = [on |-> ~@.on, busy |-> TRUE]]
  /\ requests' = requests \cup {Patch(id, ~page[id].on)}
  /\ UNCHANGED <<table, dialog, refreshing, doubt, made, slipped>>

-----------------------------------------------------------------------------
(* The dialog                                                              *)

Open ==
  /\ ~dialog.open
  /\ dialog' = [dialog EXCEPT !.open = TRUE]
  /\ UNCHANGED <<table, page, requests, refreshing, doubt, made, slipped>>

\* The operator types something else.  (Fillings are numbered by the rules sent so far:
\* what is typed between two of them is one filling.)
Fill(f) ==
  /\ dialog.open /\ f # dialog.form
  /\ dialog' = [dialog EXCEPT !.form = f, !.filling = Len(made)]
  /\ UNCHANGED <<table, page, requests, refreshing, doubt, made, slipped>>

\* Cancel, the cross or Escape: onClose makes the dialog ready to submit again, also
\* while its request is under way; the fields stay.
Waiting == \E q \in requests : q.kind = "post" /\ q.heard
Close ==
  /\ dialog.open
  /\ dialog' = [dialog EXCEPT !.open = FALSE, !.busy = FALSE]
  /\ slipped' = (slipped \/ Waiting)
  /\ UNCHANGED <<table, page, requests, refreshing, doubt, made>>

\* Mutation of Submit: the button is not disabled.
SubmitWhileBusy ==
  /\ dialog.open /\ browserAccepts(dialog.form) /\ ~invalid(dialog.form)
  /\ Len(made) < Len(uuids)
  /\ made' = Append(made, [form |-> dialog.form, filling |-> dialog.filling])
  /\ requests' = requests \cup {Post(buildRule(dialog.form, uuids[Len(made) + 1]))}
  /\ dialog' = [dialog EXCEPT !.busy = TRUE]
  /\ UNCHANGED <<table, page, refreshing, doubt, slipped>>

\* A form buildRule throws on shows the error and changes nothing else.
Submit ==
  /\ dialog.open /\ ~dialog.busy /\ browserAccepts(dialog.form) /\ ~invalid(dialog.form)
  /\ Len(made) < Len(uuids)
  /\ made' = Append(made, [form |-> dialog.form, filling |-> dialog.filling])
  /\ requests' = requests \cup {Post(buildRule(dialog.form, uuids[Len(made) + 1]))}
  /\ dialog' = [dialog EXCEPT !.busy = TRUE]
  /\ UNCHANGED <<table, page, refreshing, doubt, slipped>>

-----------------------------------------------------------------------------
(* The requests                                                            *)

\* The server takes a request.  What a request the page has given up on does is news
\* to the page.
Arrive(q) ==
  /\ q.answer = Null
  /\ LET outcome == IF q.kind = "post" THEN post(table, q.rule) ELSE patch(table, q.id, q.value)
     IN  /\ table' = outcome.rows
         /\ requests' = (requests \ {q})
              \cup IF q.heard THEN {[q EXCEPT !.answer = outcome.ok]} ELSE {}
         /\ doubt' = IF q.kind = "post" \/ ~outcome.ok THEN doubt
                     ELSE IF q.heard THEN doubt \ {q.id} ELSE doubt \cup {q.id}
  /\ UNCHANGED <<page, dialog, refreshing, made, slipped>>

\* await returned: a switch has its answer, the dialog closes, whichever filling it
\* holds by now, and starts over; both refresh.
Confirmed(q) ==
  /\ refreshing' = TRUE
  /\ IF q.kind = "patch"
     THEN page' = [page EXCEPT ![q.id].busy = FALSE] /\ UNCHANGED dialog
     ELSE dialog' = NewDialog(Len(made)) /\ UNCHANGED page

\* Mutation of Rejected: the switch stays where it is.
RejectedStays(q) ==
  /\ UNCHANGED refreshing
  /\ IF q.kind = "patch"
     THEN page' = [page EXCEPT ![q.id].busy = FALSE] /\ UNCHANGED dialog
     ELSE dialog' = [dialog EXCEPT !.busy = FALSE] /\ UNCHANGED page

\* await threw: the switch moves back, the dialog shows the error and keeps its fields.
Rejected(q) ==
  /\ UNCHANGED refreshing
  /\ IF q.kind = "patch"
     THEN page' = [page EXCEPT ![q.id] = [on |-> ~q.value, busy |-> FALSE]] /\ UNCHANGED dialog
     ELSE dialog' = [dialog EXCEPT !.busy = FALSE] /\ UNCHANGED page

Reply(q) ==
  /\ q.heard /\ q.answer # Null
  /\ requests' = requests \ {q}
  /\ IF q.answer THEN Confirmed(q) ELSE Rejected(q)
  /\ UNCHANGED <<table, doubt, made, slipped>>

\* fetch throws: the answer is lost, or the request, or it is only late.
Lose(q) ==
  /\ q.heard
  /\ \/ /\ requests' = requests \ {q}
        /\ doubt' = IF q.kind = "patch" /\ q.answer = TRUE THEN doubt \cup {q.id} ELSE doubt
        /\ slipped' = (slipped \/ (q.kind = "post" /\ q.answer = TRUE))
     \/ /\ q.answer = Null
        /\ requests' = (requests \ {q}) \cup {[q EXCEPT !.heard = FALSE]}
        /\ slipped' = (slipped \/ q.kind = "post")
        /\ UNCHANGED doubt
  /\ Rejected(q)
  /\ UNCHANGED <<table, made>>

-----------------------------------------------------------------------------
(* Other clients of the API, the other tabs among them (no page deletes)   *)

OtherPatch(id) ==
  /\ id \in ids(table)
  /\ table' = patch(table, id, ~stored(table, id)).rows
  /\ doubt' = doubt \cup {id}
  /\ UNCHANGED <<page, dialog, requests, refreshing, made, slipped>>

OtherDelete(id) ==
  /\ id \in ids(table)
  /\ table' = delete(table, id).rows
  /\ doubt' = doubt \cup {id}
  /\ UNCHANGED <<page, dialog, requests, refreshing, made, slipped>>

-----------------------------------------------------------------------------

PagesNext ==
  \/ Load \/ Refresh \/ RefreshFails
  \/ \E id \in Switches : Toggle(id) \/ OtherPatch(id) \/ OtherDelete(id)
  \/ Open \/ Close \/ Submit \/ \E f \in Forms : Fill(f)
  \/ \E q \in requests : Arrive(q) \/ Reply(q) \/ Lose(q)

PagesSpec == PagesInit /\ [][PagesNext]_pagesVars

-----------------------------------------------------------------------------
(* Properties                                                              *)

\* A switch at rest shows the state the engine goes by, unless somebody else changed the
\* rule since, an answer was lost, or a request given up on arrived late: optimism and
\* rollback leave no other way to disagree, whatever answers arrive in which order.
ToggleTellsTheTruth ==
  \A id \in Switches \ doubt :
    page[id] # Null /\ ~page[id].busy /\ id \in ids(table) => page[id].on = stored(table, id)

\* What is typed once and submitted makes one rule, unless the dialog was closed while
\* a request was under way, which makes it ready to submit again, or reported a failure
\* although the rule was, or would be, created.
DuplicatesAreExplained ==
  \A i, j \in DOMAIN made :
    i < j /\ made[i] = made[j] /\ {uuids[i], uuids[j]} \subseteq ids(table) => slipped

\* A rule made on the page rules as the labels of its form say: blank fields mean no
\* limit and every tool, filled ones exactly what they say, for every call and usage.
FormMeansWhatItSays ==
  \A i \in DOMAIN made, r \in table : r.id = uuids[i] =>
    \A p \in {q \in Proposals : ~q.suspicious}, u \in Usages :
      evaluate(p, <<[r EXCEPT !.enabled = TRUE]>>, u, FALSE).status = Says(made[i].form, p, u)
=============================================================================
