----------------------------- MODULE Templates -----------------------------
(***************************************************************************)
(* The tables templates and template_records and the handlers of the web   *)
(* admin that change them (internal/web/templates_handlers.go).*)
(* Rows are soft-deleted and numbered like those of ZoneStore.  Nothing    *)
(* makes the name of a template unique.                                    *)
(***************************************************************************)
EXTENDS Naturals, Sequences

CONSTANTS
    TemplateNames,
    Contents,             \* descriptions of templates, contents of their records
    Editors,            \* goroutines that serve updateTemplate
    InitTemplates, InitRecords,  \* the tables at start
    MaxTemplateChanges, \* bound: statements that change them
    NoTemplate          \* an editor that is between requests

TemplateRow == [name : TemplateNames, description : Contents, live : BOOLEAN]
RecordRow   == [template : Nat, text : Contents, live : BOOLEAN]

ASSUME TemplateAssumption ==
    /\ MaxTemplateChanges \in Nat
    /\ InitTemplates \in Seq(TemplateRow)
    /\ InitRecords \in Seq(RecordRow)
    /\ \A i \in DOMAIN InitRecords : InitRecords[i].template \in DOMAIN InitTemplates
    /\ NoTemplate \notin Nat

VARIABLES
    templates,        \* table templates
    templateRecords,  \* table template_records
    editing,          \* editor -> the template it has found
    templateChanges   \* statements so far

templateVars == <<templates, templateRecords, editing, templateChanges>>

TemplateTypeOK ==
    /\ templates \in Seq(TemplateRow)
    /\ templateRecords \in Seq(RecordRow)
    /\ editing \in [Editors -> Nat \cup {NoTemplate}]
    /\ templateChanges \in 0 .. MaxTemplateChanges

TemplateInit ==
    /\ templates = InitTemplates
    /\ templateRecords = InitRecords
    /\ editing = [e \in Editors |-> NoTemplate]
    /\ templateChanges = 0

Change ==
    /\ templateChanges < MaxTemplateChanges
    /\ templateChanges' = templateChanges + 1

CreateTemplate(n, d) ==
    /\ Change
    /\ templates' = Append(templates, [name |-> n, description |-> d, live |-> TRUE])
    /\ UNCHANGED <<templateRecords, editing>>

\* updateTemplate finds the row, then saves it with every column, which brings
\* back a row deleted in between.
FindTemplate(e) ==
    /\ editing[e] = NoTemplate
    /\ templateChanges < MaxTemplateChanges
    /\ \E t \in DOMAIN templates : /\ templates[t].live
                                   /\ editing' = [editing EXCEPT ![e] = t]
    /\ UNCHANGED <<templates, templateRecords, templateChanges>>

SaveTemplate(e, n, d) ==
    /\ editing[e] # NoTemplate
    /\ Change
    /\ templates' = [templates EXCEPT ![editing[e]] =
                       [name |-> n, description |-> d, live |-> TRUE]]
    /\ editing' = [editing EXCEPT ![e] = NoTemplate]
    /\ UNCHANGED templateRecords

\* Only the template's row: its records stay live.
DeleteTemplate(t) ==
    /\ templates[t].live
    /\ Change
    /\ templates' = [templates EXCEPT ![t].live = FALSE]
    /\ UNCHANGED <<templateRecords, editing>>

\* The template is not looked for; the foreign key asks for a row, live or not.
CreateTemplateRecord(t, x) ==
    /\ Change
    /\ templateRecords' = Append(templateRecords, [template |-> t, text |-> x, live |-> TRUE])
    /\ UNCHANGED <<templates, editing>>

DeleteTemplateRecord(r) ==
    /\ templateRecords[r].live
    /\ Change
    /\ templateRecords' = [templateRecords EXCEPT ![r].live = FALSE]
    /\ UNCHANGED <<templates, editing>>

TemplateNext ==
    \/ \E n \in TemplateNames, d \in Contents :
          \/ CreateTemplate(n, d)
          \/ \E e \in Editors : SaveTemplate(e, n, d)
    \/ \E e \in Editors : FindTemplate(e)
    \/ \E t \in DOMAIN templates :
          \/ DeleteTemplate(t)
          \/ \E x \in Contents : CreateTemplateRecord(t, x)
    \/ \E r \in DOMAIN templateRecords : DeleteTemplateRecord(r)

\* A template as it is sent to a slave.
LiveTemplates == {t \in DOMAIN templates : templates[t].live}
RecordsOf(t)  == {templateRecords[r].text :
                    r \in {q \in DOMAIN templateRecords :
                             templateRecords[q].live /\ templateRecords[q].template = t}}
=============================================================================
