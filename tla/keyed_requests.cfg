SPECIFICATION Spec
CONSTANTS
  c1 = c1  c2 = c2  c3 = c3  c4 = c4
  Copies = {c1, c2, c3, c4}
  NoCopy = NoCopy
  PayloadOf <- OnePayloadDiffers
CHECK_DEADLOCK FALSE
INVARIANTS BindingInv RunsOnce AnswersAgree
SYMMETRY Symmetry
