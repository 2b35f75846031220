\* Two entities with a plain text and a form, edited one after the other.
SPECIFICATION Spec
CONSTANTS
  None = None
  title = title
  body = body
  Entities = {1, 2}
  Fields = {title, body}
  EntityOf <- TwoEntities
  FormFields = {body}
  MaxEdits = 2
  MaxMishaps = 0
  MaxRequests = 1
INVARIANTS DiscardedNotSaved
CHECK_DEADLOCK FALSE
