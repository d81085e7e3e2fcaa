---------------------------- MODULE Integrations ----------------------------
(***************************************************************************)
(* Integration projects, their milestones and updates, and consultations.  *)
(* A change of a project reads the row, checks the transition, changes the *)
(* copy and writes it back.  A project or a consultation is named by the   *)
(* call that creates it.                                                   *)
(***************************************************************************)
EXTENDS Handlers

CONSTANTS
    FirstProjects,      \* the projects of the start
    FirstStatus,        \* and their status
    Offers              \* the rows of integration_templates

VARIABLES
    projects,       \* integration_projects
    milestones,     \* project_milestones: those of each project
    updates,        \* project_updates, by the call that wrote them
    consultations   \* integration_consultations

projVars == <<projects, milestones, updates, consultations>>

ProjectIds == Calls \cup FirstProjects
DefaultMilestones == <<"Discovery", "Environment", "Data", "Development", "Testing", "Go-Live">>

(* isValidStatusTransition *)
ValidTransitions ==
    [draft |-> {"scoping", "canceled"},
     scoping |-> {"approved", "draft", "canceled"},
     approved |-> {"in_progress", "on_hold", "canceled"},
     in_progress |-> {"testing", "on_hold", "canceled"},
     testing |-> {"completed", "in_progress", "on_hold"},
     on_hold |-> {"in_progress", "canceled"},
     completed |-> {}, canceled |-> {}]

Stages == DOMAIN ValidTransitions

(* A row of integration_projects: started and finished say whether there   *)
(* are a start and a completion date.                                      *)
ProjectRows ==
    [status : Stages, engineer : STRING \cup {None}, started : BOOLEAN, finished : BOOLEAN,
     template : Offers \cup {None}]

(* No project of the start is past its start. *)
ASSUME ProjAssumption ==
    /\ Calls \cap FirstProjects = {} /\ None \notin Offers \cup ProjectRows
    /\ FirstStatus \in Stages \ {"in_progress", "testing", "completed"}

NewProject(template) ==
    [status |-> "draft", engineer |-> None, started |-> FALSE, finished |-> FALSE,
     template |-> template]

ProjInit ==
    /\ projects = [p \in ProjectIds |-> IF p \in FirstProjects
                                        THEN [NewProject(None) EXCEPT !.status = FirstStatus]
                                        ELSE None]
    /\ milestones = [p \in ProjectIds |-> {}]
    /\ updates = {}
    /\ consultations = {}

(* Slip: start_date is not among the columns. *)
UpdateProjectButStart(p, row) ==
    projects' = [projects EXCEPT ![p] = [row EXCEPT !.started = projects[p].started]]

(* UPDATE integration_projects: all columns that may change. *)
UpdateProject(p, row) == projects' = [projects EXCEPT ![p] = row]

(* The template, if there is one of that id. *)
GetTemplateByID(t) == IF t \in Offers THEN t ELSE None

(* CreateProject: the template if it can be read, the row, and for a       *)
(* template the default milestones, errors ignored one by one.             *)
CreateProject(c) ==
    \/ /\ Begins(c, "project")
       /\ \/ Hold(c, NewProject(GetTemplateByID(ask[c].template)))
          \/ MayFail /\ Hold(c, NewProject(None))
       /\ Goto(c, "insert") /\ UNCHANGED projVars
    \/ /\ Serving(c, "project", "insert")
       /\ \/ /\ projects' = [projects EXCEPT ![c] = held[c]]
             /\ IF held[c].template = None THEN Answer(c, "ok") ELSE Goto(c, "milestones")
             /\ UNCHANGED held
          \/ MayFail /\ Refuse(c) /\ UNCHANGED projects
       /\ UNCHANGED <<milestones, updates, consultations>>
    \/ /\ Serving(c, "project", "milestones")
       /\ \E inserted \in SUBSET (1 .. Len(DefaultMilestones)) :
            /\ MayFail \/ inserted = 1 .. Len(DefaultMilestones)
            /\ milestones' = [milestones EXCEPT ![c] = inserted]
       /\ Ok(c) /\ UNCHANGED <<projects, updates, consultations>>

(* A handler reads its project; an error reads as not found. *)
ReadProject(c, next) ==
    /\ \/ projects[ask[c].project] # None /\ Hold(c, projects[ask[c].project]) /\ Goto(c, next)
       \/ (MayFail \/ projects[ask[c].project] = None) /\ Refuse(c)
    /\ UNCHANGED projVars

WriteProject(c, row) ==
    /\ \/ UpdateProject(ask[c].project, row) /\ Ok(c)
       \/ MayFail /\ Refuse(c) /\ UNCHANGED projects
    /\ UNCHANGED <<milestones, updates, consultations>>

UpdateProjectStatus(c) ==
    \/ Begins(c, "stage") /\ ReadProject(c, "write")
    \/ /\ Serving(c, "stage", "write")
       /\ IF ask[c].status \in ValidTransitions[held[c].status]
          THEN WriteProject(c, [held[c] EXCEPT
                 !.status = ask[c].status,
                 !.started = @ \/ ask[c].status = "in_progress",
                 !.finished = @ \/ ask[c].status = "completed"])
          ELSE Refuse(c) /\ UNCHANGED projVars

AssignEngineer(c) ==
    \/ Begins(c, "engineer") /\ ReadProject(c, "write")
    \/ /\ Serving(c, "engineer", "write")
       /\ WriteProject(c, [held[c] EXCEPT !.engineer = ask[c].engineer])

AddProjectUpdate(c) ==
    \/ Begins(c, "note") /\ ReadProject(c, "insert")
    \/ /\ Serving(c, "note", "insert")
       /\ \/ updates' = updates \cup {c} /\ Ok(c)
          \/ MayFail /\ Refuse(c) /\ UNCHANGED updates
       /\ UNCHANGED <<projects, milestones, consultations>>

InsertConsultation(c) == consultations' = consultations \cup {c}

RequestConsultation(c) ==
    /\ Begins(c, "consult")
    /\ \/ InsertConsultation(c) /\ Ok(c)
       \/ MayFail /\ Refuse(c) /\ UNCHANGED consultations
    /\ UNCHANGED <<projects, milestones, updates>>

(* UpdateMilestone, ScheduleConsultation and CompleteConsultation read the *)
(* row first.  Its notes are NULL, no statement of the service writes them *)
(* before, and NULL does not scan into a string: they answer "not found".  *)
UpdateMilestone(c) ==
    /\ Begins(c, "milestone")
    /\ Refuse(c) /\ UNCHANGED projVars

ReviseConsultation(c) ==
    /\ Begins(c, "reviseconsult")
    /\ Refuse(c) /\ UNCHANGED projVars

(* The lists and single reads *)
QueryProjects(c) ==
    /\ Begins(c, "queryproj")
    /\ Ok(c) \/ (MayFail /\ Refuse(c))
    /\ UNCHANGED projVars

ProjOps == {"project", "stage", "engineer", "note", "consult", "milestone", "reviseconsult",
            "queryproj"}

ProjNext ==
    \E c \in Calls :
        \/ ask[c].op \in ProjOps /\ Malformed(c) /\ UNCHANGED projVars
        \/ CreateProject(c) \/ UpdateProjectStatus(c) \/ AssignEngineer(c)
        \/ AddProjectUpdate(c) \/ RequestConsultation(c)
        \/ UpdateMilestone(c) \/ ReviseConsultation(c) \/ QueryProjects(c)

-----------------------------------------------------------------------------
(* Whatever changes of a project overlap: one in testing or completed has  *)
(* a start date, a completed one a completion date, milestones belong to   *)
(* projects made from a template, and updates to projects that exist       *)
(* (UpdateProjectStatus, AssignEngineer, CreateProject).                   *)
StagesAreBacked ==
    /\ \A p \in ProjectIds : projects[p] # None =>
         /\ projects[p].status \in {"testing", "completed"} => projects[p].started
         /\ projects[p].status = "completed" => projects[p].finished
    /\ \A p \in ProjectIds : milestones[p] # {} =>
         projects[p] # None /\ projects[p].template # None
    /\ \A c \in updates : projects[ask[c].project] # None
=============================================================================
