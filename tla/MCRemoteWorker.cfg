SPECIFICATION RSpec
CONSTANTS
  capture_avoiding <- capture_avoiding_subs
  normal_forms_agree <- check_polynomial_normal_form
  reduces <- check_definitional_reduction
  Value <- ValueOf
  Undefined <- NoValue
  OtherResult <- Int0
  MaxExponent = 3
  Entailed <- MCEntailed
  Declared <- MCDeclared
  coerces <- can_coerce_to
  InDomain <- MemberOf
  Axioms <- MCAxioms
  Templates <- MCTemplates
  FunctionNames <- MCFunctionNames
  Assignments <- MCAssignments
  Tasks = {1, 2}
  Task = 1
  Environments <- MCEnvironments
  MaxSteps = 3
  MaxAxioms = 2
INVARIANTS SliceSound PartialityKept VerifierExact AcceptedAnswersAssignment
