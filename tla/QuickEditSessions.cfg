\* An entity with a plain text and a form: two edits, and one request that fails
\* or finds errors, or one click between a handler and its deferred calls.
SPECIFICATION Spec
CONSTANTS
  None = None
  title = title
  body = body
  Entities = {1}
  Fields = {title, body}
  EntityOf <- OneEntity
  FormFields = {body}
  MaxEdits = 2
  MaxMishaps = 1
  MaxRequests = 1
INVARIANTS TypeOK OneEditor  NoSilentLoss ClosedIsInactive
CHECK_DEADLOCK FALSE
