\* One code of each kind that some step tells apart.
SPECIFICATION TransferSpec
CONSTANTS
  Broken = Broken
  Codes = {150, 200, 226, 227, 229, 230, 331, 500, 530, 550}
INVARIANTS NothingLeftOpen SuccessIsConfirmed
PROPERTIES CancelledEnds
