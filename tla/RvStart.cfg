SPECIFICATION Spec
CONSTANTS
  Width = 8
  BYTE = 2
  Window = 64
  MIE = 3
  MPIE = 5
  MTI = 5
  Regs = {0, 1, 2, 3, 4, 5, 6, 7}
  RA = 1
  A7 = 5
  A1 = 6
  A2 = 7
  Used = 64
  MaxRounds = 6
  PROMO_MAX_LOOPS = 2
  PROMO_MAX_SLOTS = 2
  Programs <- StartPrograms
  CodeOf <- MCCodeOf
  OptionsOf <- MCOptionsOf
  ImageOf <- MCImageOf
PROPERTY ImplementsGuest
