SPECIFICATION Spec
CONSTANTS
  Request = {p1, p2}
  NoRequest = noRequest
  Key = {k1, k2}
  StateSet <- TwoStateSets
  EdgeSet <- TwoEdgeSets
  Offered = {"createType", "updateType", "deleteType", "replaceFields", "createTemplate", "updateTemplate", "deleteTemplate", "createTicket"}
  MaxOps = 3
  MaxMove = 1
SYMMETRY Alike
CHECK_DEADLOCK FALSE
INVARIANTS
  FieldsAreOneForm
  NoLostEdit
  GraphIsClosed
  TemplateFollowsOrg
  NewTicketFitsAForm
