SPECIFICATION Spec
CONSTANTS
  letter = letter
  report = report
  system = system
  Names <- MCNames
  Unwritable <- MCUnwritable
  Contents <- MCContents
  Absent = Absent
  Empty = ""
  Descriptors <- MCDescriptors
SYMMETRY Writables
INVARIANTS HeldIsOpen NothingLeaks ClosedOnce
CHECK_DEADLOCK FALSE
