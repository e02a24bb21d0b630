\* Two clients and every combination of sample requests, one of them waiting for
\* room in the backlog; or one client and many texts.
CONSTANTS Clients = {c1, c2}
          First = c1
          NoRequest = NoRequest
          MaxLength = 3
          Loads <- MCLoads
          Value <- EvaluateText
          Meaning <- Expressions
          BACKLOG = 0
          READ_MAX = 9
          ForkCanFail = TRUE
SPECIFICATION FairSpec
INVARIANTS TypeOK AnswersMatch ZombiesAnnounced
PROPERTIES ClientsEnd WorkersReaped
CHECK_DEADLOCK FALSE
