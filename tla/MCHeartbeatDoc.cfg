SPECIFICATION Spec
CONSTANTS
  Target = {all, t1}
  Everyone = all
  Asked = {3}
  MaxBatch = 2
  MaxRunner = 2
INVARIANTS
  EnableResumes
CHECK_DEADLOCK FALSE
